---- MODULE Spec2Model ----
(***************************************************************************)
(* Provider abstraction and streaming response engine of fanyi-cmd         *)
(* (providers.ts as bundled in src/bin/ai.js, lines 314-695).               *)
(*                                                                         *)
(* One behaviour is one invocation of translate, ask or askStream: the     *)
(* synchronous prefix of the call (provider lookup, credential             *)
(* resolution, issuing the request), the outcome of the request, and, on   *)
(* the streaming path, the read loop of streamChatCompletion with its      *)
(* line buffer, accumulator and sink.                                      *)
(*                                                                         *)
(* Text is a sequence of one-character strings.  In a response body the    *)
(* character "{" stands for the JSON text up to and including the opening  *)
(* quote of choices[0].delta.content and "}" for the closing quote and     *)
(* the closing brackets, so <<"{","H","e","}">> is an object whose delta   *)
(* is "He".  "C3","A9" are the two bytes of one UTF-8 character.           *)
(***************************************************************************)
EXTENDS Integers, Sequences, FiniteSets, TLC

\* Largest number of complete lines in a generated response body.
MaxLines == 2

-----------------------------------------------------------------------------
(* JavaScript values                                                       *)

Undefined == "undefined"

\* err.statusCode was never assigned (ApiError.statusCode is optional).
NoStatusCode == -1

\* Own-property lookup falls through to Object.prototype for these keys.
ObjectPrototypeKeys == {"constructor"}

InheritedValue == "function Object()"

Truthy(v) == v # Undefined /\ v # ""

-----------------------------------------------------------------------------
(* Provider table                                                          *)

PROVIDERS ==
  [deepseek |-> [name |-> "DeepSeek", baseUrl |-> "https://api.deepseek.com",
                 apiKeyEnv |-> "DEEPSEEK_API_KEY", defaultModel |-> "deepseek-chat"],
   qwen     |-> [name |-> "Qwen", baseUrl |-> "https://dashscope.aliyuncs.com/compatible-mode/v1",
                 apiKeyEnv |-> "DASHSCOPE_API_KEY", defaultModel |-> "qwen-plus"],
   openai   |-> [name |-> "ChatGPT", baseUrl |-> "https://api.openai.com/v1",
                 apiKeyEnv |-> "OPENAI_API_KEY", defaultModel |-> "gpt-3.5-turbo"],
   libre    |-> [name |-> "Google Translate", baseUrl |-> "https://translate.googleapis.com",
                 apiKeyEnv |-> Undefined, defaultModel |-> Undefined]]

TableIds == DOMAIN PROVIDERS

CredentialProviders == {p \in TableIds : PROVIDERS[p].apiKeyEnv # Undefined}

EnvVars == {PROVIDERS[p].apiKeyEnv : p \in CredentialProviders}

\* Provider ids a caller may pass: the table's, two absent ones, and a key
\* that every object inherits.
ProviderIds == TableIds \cup {"gemini", ""} \cup ObjectPrototypeKeys

\* PROVIDERS[provider]: truthy says whether `!providerConfig` is false.
LookupProvider(id) ==
  IF id \in TableIds
    THEN [truthy |-> TRUE, name |-> PROVIDERS[id].name, baseUrl |-> PROVIDERS[id].baseUrl,
          apiKeyEnv |-> PROVIDERS[id].apiKeyEnv]
    ELSE IF id \in ObjectPrototypeKeys
      THEN [truthy |-> TRUE, name |-> Undefined, baseUrl |-> Undefined, apiKeyEnv |-> Undefined]
      ELSE [truthy |-> FALSE, name |-> Undefined, baseUrl |-> Undefined, apiKeyEnv |-> Undefined]

\* new URL(baseUrl).host
UrlHost(baseUrl) ==
  CASE baseUrl = "https://api.deepseek.com" -> "api.deepseek.com"
    [] baseUrl = "https://dashscope.aliyuncs.com/compatible-mode/v1" -> "dashscope.aliyuncs.com"
    [] baseUrl = "https://api.openai.com/v1" -> "api.openai.com"
    [] baseUrl = "https://translate.googleapis.com" -> "translate.googleapis.com"
    [] OTHER -> Undefined

-----------------------------------------------------------------------------
(* Layered configuration                                                   *)

ConfigKey == [deepseek |-> "cfg-deepseek", qwen |-> "cfg-qwen", openai |-> "cfg-openai"]

EnvKey == [DEEPSEEK_API_KEY |-> "env-deepseek", DASHSCOPE_API_KEY |-> "env-qwen",
           OPENAI_API_KEY |-> "env-openai"]

LegacyToken == "legacy-token"

\* The apiKeys objects a caller may pass: each entry empty or set.
ApiKeysValues == {f \in [CredentialProviders -> {""} \cup {ConfigKey[p] : p \in CredentialProviders}] :
                    \A p \in CredentialProviders : f[p] \in {"", ConfigKey[p]}}

\* The process environments: each variable unset, empty or set.
EnvValues == {e \in [EnvVars -> {Undefined, ""} \cup {EnvKey[v] : v \in EnvVars}] :
                \A v \in EnvVars : e[v] \in {Undefined, "", EnvKey[v]}}

-----------------------------------------------------------------------------
(* Text                                                                    *)

Whitespace == {" ", "\r", "\t", "\n"}

RECURSIVE TrimStart(_)
TrimStart(s) ==
  IF s # <<>> /\ Head(s) \in Whitespace THEN TrimStart(Tail(s)) ELSE s

RECURSIVE TrimEnd(_)
TrimEnd(s) ==
  IF s # <<>> /\ s[Len(s)] \in Whitespace THEN TrimEnd(SubSeq(s, 1, Len(s) - 1)) ELSE s

\* String.prototype.trim
Trim(s) == TrimEnd(TrimStart(s))

\* buffer.indexOf('\n'), 1-based; 0 when there is none (JavaScript's -1).
IndexOfNewline(buf) ==
  IF \E i \in 1..Len(buf) : buf[i] = "\n"
    THEN CHOOSE i \in 1..Len(buf) : buf[i] = "\n" /\ \A j \in 1..(i - 1) : buf[j] # "\n"
    ELSE 0

DataPrefix == <<"d", "a", "t", "a", ":">>

\* line.startsWith('data:')
StartsWithData(line) ==
  Len(line) >= Len(DataPrefix) /\ SubSeq(line, 1, Len(DataPrefix)) = DataPrefix

DoneSentinel == <<"[", "D", "O", "N", "E", "]">>

\* JSON.parse(payloadStr) returns instead of throwing.
JsonParses(payloadStr) ==
  /\ Len(payloadStr) >= 2
  /\ payloadStr[1] = "{"
  /\ payloadStr[Len(payloadStr)] = "}"
  /\ \A i \in 2..(Len(payloadStr) - 1) : payloadStr[i] \notin {"{", "}"}

\* parsed?.choices?.[0]?.delta?.content || ''
DeltaContent(payloadStr) == SubSeq(payloadStr, 2, Len(payloadStr) - 1)

ReplacementChar == "?"

\* decoder.decode(value, { stream: true }): the text produced from the bytes
\* of one read, given the bytes the decoder held back from the read before.
RECURSIVE DecodedText(_, _)
DecodedText(held, bytes) ==
  IF bytes = <<>> THEN <<>>
  ELSE LET b == Head(bytes) IN
    IF held # <<>>
      THEN IF b = "A9" THEN <<"e'">> \o DecodedText(<<>>, Tail(bytes))
                       ELSE <<ReplacementChar>> \o DecodedText(<<>>, bytes)
      ELSE IF b = "C3" THEN DecodedText(<<"C3">>, Tail(bytes))
      ELSE IF b = "A9" THEN <<ReplacementChar>> \o DecodedText(<<>>, Tail(bytes))
      ELSE <<b>> \o DecodedText(<<>>, Tail(bytes))

\* The incomplete character the decoder holds back after those bytes.
HeldAfter(held, bytes) ==
  IF bytes = <<>> THEN held
  ELSE IF bytes[Len(bytes)] = "C3" THEN <<"C3">> ELSE <<>>

\* Variant: a payload JSON.parse rejects is delivered as plain text.
LineDeltaLenient(rawLine) ==
  LET line == Trim(rawLine) IN
    IF ~StartsWithData(line) THEN <<>>
    ELSE LET payloadStr == Trim(SubSeq(line, Len(DataPrefix) + 1, Len(line))) IN
      IF payloadStr = <<>> \/ payloadStr = DoneSentinel THEN <<>>
      ELSE IF JsonParses(payloadStr) THEN DeltaContent(payloadStr) ELSE payloadStr

\* The delta one complete line delivers: the body of the inner while loop
\* up to the `if (content)` test; <<>> when the line delivers nothing.
LineDelta(rawLine) ==
  LET line == Trim(rawLine) IN
    IF ~StartsWithData(line) THEN <<>>
    ELSE LET payloadStr == Trim(SubSeq(line, Len(DataPrefix) + 1, Len(line))) IN
      IF payloadStr = <<>> \/ payloadStr = DoneSentinel THEN <<>>
      ELSE IF JsonParses(payloadStr) THEN DeltaContent(payloadStr) ELSE <<>>

\* The line is a data line whose payload is the sentinel.
IsDoneLine(rawLine) ==
  LET line == Trim(rawLine) IN
    /\ StartsWithData(line)
    /\ Trim(SubSeq(line, Len(DataPrefix) + 1, Len(line))) = DoneSentinel

\* The line is a data line whose payload JSON.parse rejects.
IsMalformedLine(rawLine) ==
  LET line == Trim(rawLine) IN
    /\ StartsWithData(line)
    /\ LET payloadStr == Trim(SubSeq(line, Len(DataPrefix) + 1, Len(line))) IN
         payloadStr # <<>> /\ payloadStr # DoneSentinel /\ ~JsonParses(payloadStr)

-----------------------------------------------------------------------------
(* Response bodies the provider may send                                   *)

LineHe    == DataPrefix \o <<" ", "{", "H", "e", "}">>
LineLlo   == DataPrefix \o <<" ", "{", "l", "l", "o", "}">>
LineDone  == DataPrefix \o <<" ">> \o DoneSentinel
LineBad   == DataPrefix \o <<" ", "{", "n">>
LineEmpty == DataPrefix \o <<"{", "}">>
LinePing  == <<":", "p">>
LineSpace == DataPrefix \o <<"{", " ", "C3", "A9", "}", "\r">>

LineKinds == {LineHe, LineLlo, LineDone, LineBad, LineEmpty, LinePing, LineSpace}

\* What may follow the last newline: nothing, or a data line cut short.
Tails == {<<>>, LineLlo}

RECURSIVE JoinLines(_)
JoinLines(ls) ==
  IF ls = <<>> THEN <<>> ELSE Head(ls) \o <<"\n">> \o JoinLines(Tail(ls))

HelloBody == JoinLines(<<LineHe, LineLlo, LineDone>>)

Bodies ==
  {JoinLines(ls) \o t : ls \in UNION {[1..n -> LineKinds] : n \in 0..MaxLines}, t \in Tails}
    \cup {HelloBody}

\* Bodies offered when the whole invocation is explored.
CallBodies == {JoinLines(<<LineHe>>), JoinLines(<<LineDone>>)}

-----------------------------------------------------------------------------
(* State of one invocation                                                 *)

VARIABLES
  op,          \* the function called: "translate", "ask" or "askStream"
  provider,    \* config.provider
  apiKeys,     \* config.apiKeys
  env,         \* process.env
  token,       \* config.token
  body,        \* the bytes the provider sends if it answers with a stream
  pc,          \* where the invocation stands
  apiKey,      \* the resolved credential
  requests,    \* the calls handed to fetch / axios, in order
  err,         \* the error the invocation rejected with
  result,      \* the text the invocation resolved with
  transport,   \* the response stream: "idle", "open", "ended", "aborted"
  pos,         \* bytes of body the reader has delivered
  held,        \* bytes TextDecoder holds back (incomplete character)
  buffer,      \* streamChatCompletion's buffer
  fullText,    \* streamChatCompletion's fullText
  sinkCalls,   \* the fragments onChunk was invoked with, in order
  readPending, \* a reader.read() is outstanding
  sinkPending, \* invocations of onChunk that have not returned
  sawDone,     \* a data line carrying the sentinel has been processed
  failure,     \* what fetch / axios / the code threw, before normalisation
  history,     \* one caller recording history through insertHistoryEntry
  pair,        \* two invocations of streamChatCompletion in flight together
  settings,    \* the stored configuration: ~/.ai-config.json and the MongoDB copy
  shell,       \* an interactive zsh that sourced ai-shell.zsh
  presets,     \* the presets file ~/.ai-presets.json and the last request on it
  languages,   \* the languages collection and the requests being handled on it
  keystore,    \* the stored configuration with its apiKeys, and the requests saving it
  web          \* the /api/ask and /api/preview requests being answered

inputVars == <<op, provider, apiKeys, env, token, body>>
callVars == <<pc, apiKey, requests, err, result>>
streamVars == <<transport, pos, held, buffer, fullText, sinkCalls, readPending, sinkPending, sawDone>>
\* State of the collaborators around the core; each has its own
\* specification and is at rest while a single invocation is explored.
extVars == <<history, pair, settings, shell, presets, languages, keystore, web>>

vars == <<inputVars, callVars, streamVars, failure, extVars>>

Ops == {"translate", "ask", "askStream"}

NoError == [kind |-> "none", statusCode |-> NoStatusCode, quotaHint |-> FALSE,
            hostHint |-> "", detail |-> ""]

\* new Error(message): no statusCode is attached.
PlainError(kind) == [kind |-> kind, statusCode |-> NoStatusCode, quotaHint |-> FALSE,
                     hostHint |-> "", detail |-> ""]

IdleStream ==
  /\ transport = "idle"
  /\ pos = 0
  /\ held = <<>>
  /\ buffer = <<>>
  /\ fullText = <<>>
  /\ sinkCalls = <<>>
  /\ readPending = FALSE
  /\ sinkPending = 0
  /\ sawDone = FALSE

NoFailure == [response |-> FALSE, status |-> 0, code |-> Undefined, message |-> ""]

\* Largest number of history saves one caller makes in a row.
MaxSaves == 2

\* The callers that record history: translateWord and POST /api/ask.
HistoryCallers == {"translateWord", "POST /api/ask"}

\* Results the primary call may have produced.
PrimaryResults == {"answer-1", "answer-2"}

\* No history save has been started.  MongoClient is the module variable
\* of db.ts (null until the driver is imported); `client` is the local of
\* insertHistoryEntry.
HistoryAtRest(caller, driver) ==
  [caller |-> caller, driverInstalled |-> driver, pc |-> "idle", MongoClient |-> FALSE,
   client |-> FALSE, created |-> 0, closeCalls |-> 0, closed |-> 0, stored |-> 0, raised |-> FALSE,
   primary |-> Undefined, delivered |-> Undefined, saves |-> 0]

\* No second invocation exists.
PairAtRest == [inv |-> <<>>, locals |-> <<>>]

\* A fresh installation: no config file, no MongoDB copy, server not
\* started.  A stored configuration is <<c>>, an absent one <<>>.
SettingsAtRest ==
  [server |-> "down", db |-> FALSE, file |-> <<>>, mongo |-> <<>>,
   loaded |-> <<>>, lastSaved |-> <<>>]

\* Largest number of prompts followed after one run of ai.
MaxPrompts == 2

\* The shell has sourced the script and is about to show its first prompt.
ShellAtRest ==
  [pc |-> "finished", AI_CMD_PREFILL_NEXT |-> 0, LBUFFER |-> <<>>,
   last |-> [cmd |-> "none", status |-> 0, nargs |-> 0, mktempOk |-> TRUE, output |-> <<>>],
   promptsSince |-> 0]

\* Largest number of preset requests explored in a row.
MaxPresetRequests == 2

\* ~/.ai-presets.json does not exist and no request was made.
PresetsAtRest ==
  [exists |-> FALSE, list |-> <<>>, before |-> <<>>,
   last |-> [kind |-> "none", name |-> "", config |-> "", answer |-> 0], requests |-> 0]

\* Largest number of language requests the server takes in one run.
MaxLanguageRequests == 2

\* A request slot of the languages API with no request in it.
NoLanguageRequest ==
  [kind |-> "none", code |-> "", name |-> Undefined, isSourceOnly |-> Undefined,
   pc |-> "idle", sort |-> 0, answer |-> 0, inserted |-> FALSE]

\* The languages collection is empty and no request is being handled.
LanguagesAtRest ==
  [docs |-> <<>>, slot |-> <<NoLanguageRequest, NoLanguageRequest>>, taken |-> 0]

\* No configuration is stored and no request is being handled.
KeystoreAtRest ==
  [db |-> FALSE, file |-> <<>>, mongo |-> <<>>, slot |-> <<>>, maxInFlight |-> 0]

\* The web server is handling no /api/ask or /api/preview request.
WebAtRest ==
  [persisted |-> [provider |-> "libre", apiKeys |-> [p \in CredentialProviders |-> ""]],
   env |-> [v \in EnvVars |-> Undefined], run |-> <<>>]

\* Nothing outside the invocation is going on.
ExtIdle ==
  /\ history = HistoryAtRest("translateWord", TRUE)
  /\ pair = PairAtRest
  /\ settings = SettingsAtRest
  /\ shell = ShellAtRest
  /\ presets = PresetsAtRest
  /\ languages = LanguagesAtRest
  /\ keystore = KeystoreAtRest
  /\ web = WebAtRest

NotCalled ==
  /\ pc = "start"
  /\ failure = NoFailure
  /\ apiKey = Undefined
  /\ requests = <<>>
  /\ err = NoError
  /\ result = <<>>

Init ==
  /\ op \in Ops
  /\ provider \in ProviderIds
  /\ apiKeys \in ApiKeysValues
  /\ env \in EnvValues
  /\ token \in {"", LegacyToken}
  /\ body \in CallBodies
  /\ NotCalled
  /\ IdleStream
  /\ ExtIdle

-----------------------------------------------------------------------------
(* Credential resolution                                                   *)

\* apiKeys[provider] on a plain object.
ApiKeysEntry(keys, id) ==
  IF id \in DOMAIN keys THEN keys[id]
  ELSE IF id \in ObjectPrototypeKeys THEN InheritedValue
  ELSE Undefined

\* process.env[name] || ''
EnvOrEmpty(environ, name) ==
  IF name \in DOMAIN environ /\ Truthy(environ[name]) THEN environ[name] ELSE ""

\* Variant: the legacy token is never consulted.
TranslateApiKeyNoToken(id, keys, environ, tok) ==
  LET providerConfig == LookupProvider(id)
      k1 == ApiKeysEntry(keys, id)
  IN IF ~Truthy(k1) /\ Truthy(providerConfig.apiKeyEnv)
       THEN EnvOrEmpty(environ, providerConfig.apiKeyEnv) ELSE k1

\* translate: let apiKey = apiKeys[provider]; env fallback; token fallback.
TranslateApiKey(id, keys, environ, tok) ==
  LET providerConfig == LookupProvider(id)
      k1 == ApiKeysEntry(keys, id)
      k2 == IF ~Truthy(k1) /\ Truthy(providerConfig.apiKeyEnv)
              THEN EnvOrEmpty(environ, providerConfig.apiKeyEnv) ELSE k1
  IN IF ~Truthy(k2) /\ Truthy(tok) THEN tok ELSE k2

\* ask: the same three steps, written out again in ask.
AskApiKey(id, keys, environ, tok) ==
  LET providerConfig == LookupProvider(id)
      k1 == ApiKeysEntry(keys, id)
      k2 == IF ~Truthy(k1) /\ Truthy(providerConfig.apiKeyEnv)
              THEN EnvOrEmpty(environ, providerConfig.apiKeyEnv) ELSE k1
  IN IF ~Truthy(k2) /\ Truthy(tok) THEN tok ELSE k2

\* Variant: the first configured key of any provider is taken.
AskStreamApiKeyAnyProvider(id, keys, environ, tok) ==
  IF \E p \in DOMAIN keys : Truthy(keys[p])
    THEN keys[CHOOSE p \in DOMAIN keys : Truthy(keys[p])]
    ELSE ""

\* askStream: the same three steps, written out again in askStream.
AskStreamApiKey(id, keys, environ, tok) ==
  LET providerConfig == LookupProvider(id)
      k1 == ApiKeysEntry(keys, id)
      k2 == IF ~Truthy(k1) /\ Truthy(providerConfig.apiKeyEnv)
              THEN EnvOrEmpty(environ, providerConfig.apiKeyEnv) ELSE k1
  IN IF ~Truthy(k2) /\ Truthy(tok) THEN tok ELSE k2

-----------------------------------------------------------------------------
(* The synchronous prefix of each exported function                        *)

Fail(e) ==
  /\ pc' = "failed"
  /\ err' = e
  /\ UNCHANGED <<apiKey, requests, result>>

\* The call reaches fetch / axios: the request is handed over and awaited.
Issue(client, id, key, awaiting) ==
  /\ requests' = Append(requests, [client |-> client,
                                   host |-> UrlHost(LookupProvider(id).baseUrl),
                                   auth |-> key])
  /\ apiKey' = key
  /\ pc' = awaiting
  /\ UNCHANGED <<err, result>>

\* Variant: the translation-only provider is not singled out.
ChatUnsupportedNever(id) == FALSE

\* if (provider === 'libre') in ask and askStream.
ChatUnsupported(id) == id = "libre"

Translate ==
  /\ pc = "start"
  /\ op = "translate"
  /\ IF provider = "libre"
       THEN Issue("axios.get", "libre", "", "await_get")
       ELSE IF ~LookupProvider(provider).truthy
         THEN Fail(PlainError("UnknownProvider"))
         ELSE LET key == TranslateApiKey(provider, apiKeys, env, token) IN
           IF ~Truthy(key)
             THEN Fail(PlainError("MissingCredential"))
             ELSE Issue("fetch", provider, key, "await_fetch")
  /\ UNCHANGED <<inputVars, streamVars, failure, extVars>>

Ask ==
  /\ pc = "start"
  /\ op = "ask"
  /\ IF ~LookupProvider(provider).truthy
       THEN Fail(PlainError("UnknownProvider"))
       ELSE IF ChatUnsupported(provider)
         THEN Fail(PlainError("UnsupportedOperation"))
         ELSE LET key == AskApiKey(provider, apiKeys, env, token) IN
           IF ~Truthy(key)
             THEN Fail(PlainError("MissingCredential"))
             ELSE Issue("axios.post", provider, key, "await_post")
  /\ UNCHANGED <<inputVars, streamVars, failure, extVars>>

AskStream ==
  /\ pc = "start"
  /\ op = "askStream"
  /\ IF ~LookupProvider(provider).truthy
       THEN Fail(PlainError("UnknownProvider"))
       ELSE IF ChatUnsupported(provider)
         THEN Fail(PlainError("UnsupportedOperation"))
         ELSE LET key == AskStreamApiKey(provider, apiKeys, env, token) IN
           IF ~Truthy(key)
             THEN Fail(PlainError("MissingCredential"))
             ELSE Issue("fetch", provider, key, "await_fetch")
  /\ UNCHANGED <<inputVars, streamVars, failure, extVars>>

-----------------------------------------------------------------------------
(* Error normalisation                                                     *)

networkErrorCodes == {"ECONNRESET", "ECONNREFUSED", "ETIMEDOUT", "ENOTFOUND"}

\* Statuses a provider may answer with when it rejects the request.
HttpErrorStatuses == {401, 402, 429, 500}

\* Failures axios rejects with: with a response (and possibly a code too),
\* or without one (a transport code, or only a message).
AxiosErrors ==
  {[response |-> TRUE, status |-> s, code |-> c, message |-> "Request failed"] :
     s \in HttpErrorStatuses, c \in {"ERR_BAD_REQUEST", "ECONNRESET"}}
  \cup
  {[response |-> FALSE, status |-> 0, code |-> c, message |-> "transport"] :
     c \in networkErrorCodes \cup {"ECONNABORTED", Undefined}}

\* Variant: the quota hint does not look at the provider.
isQuotaErrorAnyProvider(providerKey, statusCode) == statusCode \in {402, 429}

\* providerKey === 'openai' && (statusCode === 402 || statusCode === 429)
isQuotaError(providerKey, statusCode) ==
  providerKey = "openai" /\ statusCode \in {402, 429}

\* Variant: a network error code is looked at before the response.
hasResponseUnlessNetworkCode(error) ==
  error.response /\ error.code \notin networkErrorCodes

\* if (errObj.response)
hasResponse(error) == error.response

wrapProviderError(error, providerKey) ==
  IF hasResponse(error)
    THEN LET statusCode == error.status  \* ?? 500 never applies: a response has a status
         IN
         [kind |-> "HttpError",
          statusCode |-> statusCode,
          quotaHint |-> isQuotaError(providerKey, statusCode),
          hostHint |-> "",
          detail |-> ""]
    ELSE LET isNetworkIssue == error.code \in networkErrorCodes
             providerConfig == LookupProvider(providerKey)
             providerHost == IF Truthy(providerConfig.baseUrl)
                               THEN UrlHost(providerConfig.baseUrl) ELSE providerKey
         IN [kind |-> "NetworkError",
             statusCode |-> 502,
             quotaHint |-> FALSE,
             hostHint |-> IF isNetworkIssue THEN providerHost ELSE "",
             detail |-> IF Truthy(error.code) THEN error.code ELSE error.message]

-----------------------------------------------------------------------------
(* Outcome of the request                                                  *)

LastHost == requests[Len(requests)].host

\* fetch resolves with an ok response that has a body: the reader is taken,
\* buffer and fullText start empty and the first reader.read() is awaited.
FetchResolve ==
  /\ pc = "await_fetch"
  /\ LastHost # Undefined
  /\ pc' = "read"
  /\ transport' = "open"
  /\ readPending' = TRUE
  /\ buffer' = <<>>
  /\ fullText' = <<>>
  /\ UNCHANGED <<inputVars, apiKey, requests, err, result,
                 pos, held, sinkCalls, sinkPending, sawDone, failure, extVars>>

\* !response.ok
FetchHttpError ==
  /\ pc = "await_fetch"
  /\ LastHost # Undefined
  /\ \E s \in HttpErrorStatuses :
       LET e == [response |-> TRUE, status |-> s, code |-> Undefined, message |-> ""] IN
         /\ failure' = e
         /\ err' = wrapProviderError(e, provider)
  /\ pc' = "failed"
  /\ UNCHANGED <<inputVars, apiKey, requests, result, streamVars, extVars>>

\* !response.body
FetchNoBody ==
  /\ pc = "await_fetch"
  /\ LastHost # Undefined
  /\ err' = [kind |-> "EmptyStream", statusCode |-> 502, quotaHint |-> FALSE,
             hostHint |-> "", detail |-> ""]
  /\ pc' = "failed"
  /\ UNCHANGED <<inputVars, apiKey, requests, result, streamVars, failure, extVars>>

\* fetch itself rejects (unparsable URL, or a transport failure); the await
\* is outside any try block, so the rejection leaves the function as it is.
FetchReject ==
  /\ pc = "await_fetch"
  /\ \E c \in networkErrorCodes \cup {"ERR_INVALID_URL"} :
       /\ (LastHost = Undefined) <=> (c = "ERR_INVALID_URL")
       /\ failure' = [response |-> FALSE, status |-> 0, code |-> c, message |-> "fetch failed"]
       /\ err' = [PlainError("FetchFailed") EXCEPT !.detail = c]
  /\ pc' = "failed"
  /\ UNCHANGED <<inputVars, apiKey, requests, result, streamVars, extVars>>

\* The answers a chat completion may carry in choices[0].message.content.
AnswerTexts == {<<"H", "i">>, <<" ", "H", "i", "\n">>, <<>>}

\* askWithAI: axios.post resolves.
PostResolve ==
  /\ pc = "await_post"
  /\ LastHost # Undefined
  /\ \E content \in AnswerTexts, hasChoices \in BOOLEAN :
       IF hasChoices
         THEN /\ result' = Trim(content)
              /\ pc' = "done"
              /\ UNCHANGED <<err, failure>>
         ELSE LET e == [response |-> FALSE, status |-> 0, code |-> Undefined,
                        message |-> "TypeError"] IN
              /\ failure' = e
              /\ err' = wrapProviderError(e, provider)
              /\ pc' = "failed"
              /\ result' = result
  /\ UNCHANGED <<inputVars, apiKey, requests, streamVars, extVars>>

\* Variant: a rejected request is sent once more.
PostRejectRetry ==
  /\ pc = "await_post"
  /\ Len(requests) < 2
  /\ requests' = Append(requests, requests[Len(requests)])
  /\ UNCHANGED <<inputVars, apiKey, pc, err, result, streamVars, failure, extVars>>

\* askWithAI: axios.post rejects.
PostReject ==
  /\ pc = "await_post"
  /\ \E e \in AxiosErrors :
       /\ (LastHost = Undefined) => ~e.response
       /\ failure' = e
       /\ err' = wrapProviderError(e, provider)
  /\ pc' = "failed"
  /\ UNCHANGED <<inputVars, apiKey, requests, result, streamVars, extVars>>

\* translateWithGoogle: axios.get resolves; an empty translation is thrown
\* inside the try block and wrapped like any other failure.
GetResolve ==
  /\ pc = "await_get"
  /\ \E joined \in AnswerTexts :
       LET translated == Trim(joined) IN
         IF translated = <<>>
           THEN LET e == [response |-> FALSE, status |-> 0, code |-> Undefined,
                          message |-> "EmptyResult"] IN
                /\ failure' = e
                /\ err' = wrapProviderError(e, "libre")
                /\ pc' = "failed"
                /\ result' = result
           ELSE /\ result' = translated
                /\ pc' = "done"
                /\ UNCHANGED <<err, failure>>
  /\ UNCHANGED <<inputVars, apiKey, requests, streamVars, extVars>>

\* translateWithGoogle: axios.get rejects.
GetReject ==
  /\ pc = "await_get"
  /\ \E e \in AxiosErrors :
       /\ failure' = e
       /\ err' = wrapProviderError(e, "libre")
  /\ pc' = "failed"
  /\ UNCHANGED <<inputVars, apiKey, requests, result, streamVars, extVars>>

-----------------------------------------------------------------------------
(* The read loop of streamChatCompletion                                   *)

\* Variant: the buffer is overwritten by what the read delivered.
BufferReplaced(buf, text) == text

\* buffer += decoder.decode(value, { stream: true })
BufferAfterRead(buf, text) == buf \o text

\* fullText += content
Accumulate(acc, content) == acc \o content

\* Variant: the accumulator is returned as it is.
ReturnedUntrimmed(acc) == acc

\* return fullText.trim()
Returned(acc) == Trim(acc)

\* Where control goes once a line is dealt with: the inner loop runs again
\* while the buffer holds a newline; otherwise the next reader.read() is
\* issued.
LoopNext(buf) ==
  IF IndexOfNewline(buf) > 0
    THEN [pc |-> "lines", readPending |-> FALSE]
    ELSE [pc |-> "read", readPending |-> TRUE]

\* Variant: the sink is started but not waited for; the loop goes on.
AfterDeltaNoWait(buf) ==
  IF IndexOfNewline(buf) > 0
    THEN [pc |-> "lines", readPending |-> FALSE]
    ELSE [pc |-> "read", readPending |-> TRUE]

\* onChunk?.(content) is an ordinary call: control is inside the sink and
\* nothing else of the loop runs until it returns.
AfterDelta(buf) == [pc |-> "sink", readPending |-> FALSE]

\* reader.read() resolves with { done: false, value }: any non-empty prefix
\* of what the provider has still to send.
ReaderRead ==
  /\ pc = "read"
  /\ readPending
  /\ transport = "open"
  /\ \E n \in 1..(Len(body) - pos) :
       LET value == SubSeq(body, pos + 1, pos + n)
           buf == BufferAfterRead(buffer, DecodedText(held, value))
       IN /\ pos' = pos + n
          /\ held' = HeldAfter(held, value)
          /\ buffer' = buf
          /\ pc' = LoopNext(buf).pc
          /\ readPending' = LoopNext(buf).readPending
  /\ UNCHANGED <<inputVars, apiKey, requests, err, result,
                 transport, fullText, sinkCalls, sinkPending, sawDone, failure, extVars>>

\* One turn of the inner while loop: cut the first line off the buffer and
\* handle it.
ProcessLine ==
  /\ pc = "lines"
  /\ LET lineBreakIndex == IndexOfNewline(buffer)
         rawLine == SubSeq(buffer, 1, lineBreakIndex - 1)
         rest == SubSeq(buffer, lineBreakIndex + 1, Len(buffer))
         content == LineDelta(rawLine)
     IN /\ buffer' = rest
        /\ sawDone' = (sawDone \/ IsDoneLine(rawLine))
        /\ IF content # <<>>
             THEN /\ fullText' = Accumulate(fullText, content)
                  /\ sinkCalls' = Append(sinkCalls, content)
                  /\ sinkPending' = sinkPending + 1
                  /\ pc' = AfterDelta(rest).pc
                  /\ readPending' = AfterDelta(rest).readPending
             ELSE /\ pc' = LoopNext(rest).pc
                  /\ readPending' = LoopNext(rest).readPending
                  /\ UNCHANGED <<fullText, sinkCalls, sinkPending>>
  /\ UNCHANGED <<inputVars, apiKey, requests, err, result, transport, pos, held, failure, extVars>>

\* The sink returns (or throws into the catch block, which ignores it).
SinkReturn ==
  /\ pc = "sink"
  /\ sinkPending' = sinkPending - 1
  /\ pc' = LoopNext(buffer).pc
  /\ readPending' = LoopNext(buffer).readPending
  /\ UNCHANGED <<inputVars, apiKey, requests, err, result,
                 transport, pos, held, buffer, fullText, sinkCalls, sawDone, failure, extVars>>

\* Variant: what is left in the buffer at the end is handled as a last line.
ReaderDoneFlush ==
  /\ pc = "read"
  /\ readPending
  /\ transport = "open"
  /\ pos = Len(body)
  /\ transport' = "ended"
  /\ readPending' = FALSE
  /\ LET content == LineDelta(buffer) IN
       /\ fullText' = Accumulate(fullText, content)
       /\ sinkCalls' = IF content # <<>> THEN Append(sinkCalls, content) ELSE sinkCalls
       /\ result' = Returned(Accumulate(fullText, content))
  /\ buffer' = <<>>
  /\ pc' = "done"
  /\ UNCHANGED <<inputVars, apiKey, requests, err,
                 pos, held, sinkPending, sawDone, failure, extVars>>

\* reader.read() resolves with { done: true }: the loop is left and the
\* trimmed accumulator is returned.
ReaderDone ==
  /\ pc = "read"
  /\ readPending
  /\ transport = "open"
  /\ pos = Len(body)
  /\ transport' = "ended"
  /\ readPending' = FALSE
  /\ result' = Returned(fullText)
  /\ pc' = "done"
  /\ UNCHANGED <<inputVars, apiKey, requests, err,
                 pos, held, buffer, fullText, sinkCalls, sinkPending, sawDone, failure, extVars>>

\* reader.read() rejects because the connection was aborted; the await is
\* outside any try block, so the rejection leaves the function.
ReaderFail ==
  /\ pc = "read"
  /\ readPending
  /\ transport = "open"
  /\ transport' = "aborted"
  /\ readPending' = FALSE
  /\ err' = PlainError("StreamAborted")
  /\ pc' = "failed"
  /\ UNCHANGED <<inputVars, apiKey, requests, result,
                 pos, held, buffer, fullText, sinkCalls, sinkPending, sawDone, failure, extVars>>

-----------------------------------------------------------------------------
(* Specifications                                                          *)

Next ==
  \/ Translate
  \/ Ask
  \/ AskStream
  \/ FetchResolve
  \/ FetchHttpError
  \/ FetchNoBody
  \/ FetchReject
  \/ PostResolve
  \/ PostReject
  \/ GetResolve
  \/ GetReject
  \/ ReaderRead
  \/ ProcessLine
  \/ SinkReturn
  \/ ReaderDone
  \/ ReaderFail

\* Every invocation, with one short response stream.
Spec == Init /\ [][Next]_vars

\* askStream with a configured key, against every response body.
InitDecoder ==
  /\ op = "askStream"
  /\ provider \in CredentialProviders
  /\ apiKeys = [p \in CredentialProviders |-> ConfigKey[p]]
  /\ env = [v \in EnvVars |-> Undefined]
  /\ token = ""
  /\ body \in Bodies
  /\ NotCalled
  /\ IdleStream
  /\ ExtIdle

NextDecoder ==
  \/ AskStream
  \/ FetchResolve
  \/ ReaderRead
  \/ ProcessLine
  \/ SinkReturn
  \/ ReaderDone
  \/ ReaderFail

SpecDecoder == InitDecoder /\ [][NextDecoder]_vars

-----------------------------------------------------------------------------
(* History recording (db.ts) and the callers that use it                   *)

\* One fixed state of the core while a collaborator is explored.
CoreAtRest ==
  /\ op = "ask"
  /\ provider = "deepseek"
  /\ apiKeys = [p \in CredentialProviders |-> ""]
  /\ env = [v \in EnvVars |-> Undefined]
  /\ token = ""
  /\ body = <<>>
  /\ NotCalled
  /\ IdleStream

coreVars == <<inputVars, callVars, streamVars, failure>>

\* Variant: the error leaves insertHistoryEntry.
HistoryErrorRethrown(step) == TRUE

\* catch { } of insertHistoryEntry: whether an error thrown in the try block
\* at the given step leaves the function.
HistoryErrorEscapes(step) == FALSE

\* What the caller hands on after the save, whether or not the save raised:
\* both callers wrap the save in their own try/catch and go on with the
\* result they had.
CallerResult(primary, saveRaised) == primary

\* The error is thrown inside try: the catch block runs, then finally, which
\* closes `client` only if it was assigned.
HistoryFailedAt(step) ==
  history' = [history EXCEPT !.raised = HistoryErrorEscapes(step),
                             !.pc = IF history.client THEN "close" ELSE "return"]

\* The primary call succeeded and the caller starts the save.
HistorySave ==
  /\ history.pc = "idle"
  /\ history.saves < MaxSaves
  /\ \E r \in PrimaryResults :
       history' = [history EXCEPT !.primary = r, !.delivered = Undefined,
                                  !.raised = FALSE, !.pc = "create"]
  /\ UNCHANGED <<coreVars, pair, settings, shell, presets, languages, keystore, web>>

\* createDbClient: import('mongodb') unless MongoClient is already set.
HistoryImport ==
  /\ history.pc = "create"
  /\ IF history.MongoClient \/ history.driverInstalled
       THEN history' = [history EXCEPT !.MongoClient = TRUE, !.pc = "connect"]
       ELSE HistoryFailedAt("import")
  /\ UNCHANGED <<coreVars, pair, settings, shell, presets, languages, keystore, web>>

\* createDbClient: new MongoClient(...) and client.connect().
HistoryConnect ==
  /\ history.pc = "connect"
  /\ \E ok \in BOOLEAN :
       IF ok
         THEN history' = [history EXCEPT !.created = @ + 1, !.client = TRUE, !.pc = "insert"]
         ELSE history' = [history EXCEPT !.created = @ + 1,
                                         !.raised = HistoryErrorEscapes("connect"),
                                         !.pc = "return"]
  /\ UNCHANGED <<coreVars, pair, settings, shell, presets, languages, keystore, web>>

\* collection.insertOne(...)
HistoryInsert ==
  /\ history.pc = "insert"
  /\ \E ok \in BOOLEAN :
       IF ok
         THEN history' = [history EXCEPT !.stored = @ + 1, !.pc = "close"]
         ELSE HistoryFailedAt("insert")
  /\ UNCHANGED <<coreVars, pair, settings, shell, presets, languages, keystore, web>>

\* finally: client.close(), its own failure ignored.
HistoryClose ==
  /\ history.pc = "close"
  /\ \E ok \in BOOLEAN :
       history' = [history EXCEPT !.closeCalls = @ + 1,
                                  !.closed = IF ok THEN @ + 1 ELSE @,
                                  !.client = FALSE, !.pc = "return"]
  /\ UNCHANGED <<coreVars, pair, settings, shell, presets, languages, keystore, web>>

\* The save is over; the caller goes on and hands its result on.
HistoryReturn ==
  /\ history.pc = "return"
  /\ history' = [history EXCEPT !.delivered = CallerResult(history.primary, history.raised),
                                !.saves = @ + 1, !.pc = "idle"]
  /\ UNCHANGED <<coreVars, pair, settings, shell, presets, languages, keystore, web>>

InitHistory ==
  /\ CoreAtRest
  /\ \E c \in HistoryCallers, d \in BOOLEAN : history = HistoryAtRest(c, d)
  /\ pair = PairAtRest
  /\ settings = SettingsAtRest
  /\ shell = ShellAtRest
  /\ presets = PresetsAtRest
  /\ languages = LanguagesAtRest
  /\ keystore = KeystoreAtRest
  /\ web = WebAtRest

NextHistory ==
  \/ HistorySave
  \/ HistoryImport
  \/ HistoryConnect
  \/ HistoryInsert
  \/ HistoryClose
  \/ HistoryReturn

SpecHistory == InitHistory /\ [][NextHistory]_vars

-----------------------------------------------------------------------------
(* Two invocations of streamChatCompletion in flight together              *)

Invocations == {1, 2}

\* The response stream of each of the two invocations.
PairBodies ==
  [Invocations -> {JoinLines(<<LineHe, LineLlo>>), JoinLines(<<LineSpace>>), JoinLines(<<LineLlo>>)}]

\* Variant: decoder, buffer and fullText live outside the function.
LocalsShared(i) == 1

\* const decoder, let buffer, let fullText are locals of the call: every
\* invocation has its own.
LocalsOf(i) == i

\* The inner while loop, run to its end: every complete line of the buffer
\* is cut off and handled, the sink being called for each delta.
RECURSIVE DrainLines(_, _, _)
DrainLines(buf, acc, calls) ==
  LET lineBreakIndex == IndexOfNewline(buf) IN
    IF lineBreakIndex = 0
      THEN [buffer |-> buf, fullText |-> acc, sinkCalls |-> calls]
      ELSE LET content == LineDelta(SubSeq(buf, 1, lineBreakIndex - 1))
               rest == SubSeq(buf, lineBreakIndex + 1, Len(buf))
           IN IF content # <<>>
                THEN DrainLines(rest, Accumulate(acc, content), Append(calls, content))
                ELSE DrainLines(rest, acc, calls)

FreshLocals == [held |-> <<>>, buffer |-> <<>>, fullText |-> <<>>]

\* fetch resolved for invocation i: its locals are initialised and the
\* first reader.read() is awaited.
PairStart(i) ==
  /\ pair.inv[i].pc = "await_fetch"
  /\ pair' = [pair EXCEPT !.inv[i].pc = "read",
                          !.locals[LocalsOf(i)] = FreshLocals]
  /\ UNCHANGED <<coreVars, history, settings, shell, presets, languages, keystore, web>>

\* reader.read() of invocation i resolves with bytes; the invocation runs
\* until its next await.
PairRead(i) ==
  /\ pair.inv[i].pc = "read"
  /\ \E n \in 1..(Len(pair.inv[i].body) - pair.inv[i].pos) :
       LET me == pair.inv[i]
           mine == pair.locals[LocalsOf(i)]
           value == SubSeq(me.body, me.pos + 1, me.pos + n)
           buf == BufferAfterRead(mine.buffer, DecodedText(mine.held, value))
           d == DrainLines(buf, mine.fullText, <<>>)
       IN pair' = [pair EXCEPT
                     !.inv[i].pos = me.pos + n,
                     !.inv[i].sinkCalls = me.sinkCalls \o d.sinkCalls,
                     !.locals[LocalsOf(i)] = [held |-> HeldAfter(mine.held, value),
                                              buffer |-> d.buffer,
                                              fullText |-> d.fullText]]
  /\ UNCHANGED <<coreVars, history, settings, shell, presets, languages, keystore, web>>

\* reader.read() of invocation i resolves with { done: true }.
PairDone(i) ==
  /\ pair.inv[i].pc = "read"
  /\ pair.inv[i].pos = Len(pair.inv[i].body)
  /\ pair' = [pair EXCEPT !.inv[i].pc = "done",
                          !.inv[i].result = Returned(pair.locals[LocalsOf(i)].fullText)]
  /\ UNCHANGED <<coreVars, history, settings, shell, presets, languages, keystore, web>>

InitPair ==
  /\ CoreAtRest
  /\ history = HistoryAtRest("translateWord", TRUE)
  /\ settings = SettingsAtRest
  /\ shell = ShellAtRest
  /\ presets = PresetsAtRest
  /\ languages = LanguagesAtRest
  /\ keystore = KeystoreAtRest
  /\ web = WebAtRest
  /\ \E bodies \in PairBodies :
       pair = [inv |-> [i \in Invocations |->
                          [body |-> bodies[i], pos |-> 0, pc |-> "await_fetch",
                           sinkCalls |-> <<>>, result |-> <<>>]],
               locals |-> [c \in Invocations |-> FreshLocals]]

NextPair ==
  \/ \E i \in Invocations : PairStart(i)
  \/ \E i \in Invocations : PairRead(i)
  \/ \E i \in Invocations : PairDone(i)

SpecPair == InitPair /\ [][NextPair]_vars

-----------------------------------------------------------------------------
(* The stored configuration, as the CLI and the server read and write it   *)

ConfigProviders == {"libre", "deepseek"}
ConfigTargets == {"zh", "en"}
ConfigSources == {"auto", "en"}

\* The fields a save may set; Undefined is a field not given.
ConfigOptions ==
  [provider : ConfigProviders \cup {Undefined}, from : ConfigSources \cup {Undefined},
   to : ConfigTargets \cup {Undefined}]

DEFAULT_CONFIG == [provider |-> "libre", from |-> "auto", to |-> "zh"]

\* normalizeConfig: falsy fields get their defaults.
normalizeConfig(c) ==
  [provider |-> IF Truthy(c.provider) THEN c.provider ELSE "libre",
   from |-> IF Truthy(c.from) THEN c.from ELSE "auto",
   to |-> IF Truthy(c.to) THEN c.to ELSE "zh"]

\* { ...base, ...over }: a field absent from `over` keeps the base value.
Spread(base, over) ==
  [provider |-> IF over.provider = Undefined THEN base.provider ELSE over.provider,
   from |-> IF over.from = Undefined THEN base.from ELSE over.from,
   to |-> IF over.to = Undefined THEN base.to ELSE over.to]

\* readConfigFromFile
readConfigFromFile(st) ==
  IF st.file = <<>> THEN <<>> ELSE <<normalizeConfig(st.file[1])>>

\* loadPersistedConfig: the MongoDB copy when the server is connected and
\* findOne succeeds and finds one, else the file, else the defaults.
loadPersistedConfig(st, findOneOk) ==
  IF st.db /\ findOneOk /\ st.mongo # <<>>
    THEN normalizeConfig(st.mongo[1])
    ELSE IF readConfigFromFile(st) # <<>>
      THEN readConfigFromFile(st)[1]
      ELSE normalizeConfig(DEFAULT_CONFIG)

\* The server starts: connectDB sets db, or leaves it null on failure.
ServerStart ==
  /\ settings.server = "down"
  /\ \E connected \in BOOLEAN :
       settings' = [settings EXCEPT !.server = "up", !.db = connected]
  /\ UNCHANGED <<coreVars, history, pair, shell, presets, languages, keystore, web>>

\* ai config: getConfig, set the fields given, saveConfig.
CliSave ==
  /\ \E o \in ConfigOptions :
       LET current == IF settings.file = <<>> THEN DEFAULT_CONFIG
                      ELSE Spread(DEFAULT_CONFIG, settings.file[1])
           config == Spread(current, o)
       IN settings' = [settings EXCEPT !.file = <<config>>, !.lastSaved = <<config>>,
                                       !.loaded = <<>>]
  /\ UNCHANGED <<coreVars, history, pair, shell, presets, languages, keystore, web>>

\* POST /api/config: loadPersistedConfig, merge the body, persistConfig.
\* A failing updateOne leaves everything as it was (the save answers 500).
WebSave ==
  /\ settings.server = "up"
  /\ \E body_ \in ConfigOptions \cup {[provider |-> "", from |-> Undefined, to |-> Undefined]},
        findOneOk \in BOOLEAN, updateOneOk \in BOOLEAN :
       LET persistedConfig == loadPersistedConfig(settings, findOneOk)
           nextConfig == normalizeConfig(Spread(persistedConfig, body_))
       IN IF settings.db /\ ~updateOneOk
            THEN settings' = [settings EXCEPT !.loaded = <<>>]
            ELSE settings' = [settings EXCEPT
                                !.mongo = IF settings.db THEN <<nextConfig>> ELSE @,
                                !.file = <<nextConfig>>,
                                !.lastSaved = <<nextConfig>>,
                                !.loaded = <<>>]
  /\ UNCHANGED <<coreVars, history, pair, shell, presets, languages, keystore, web>>

\* GET /api/config: the server reads the stored configuration.
WebLoad ==
  /\ settings.server = "up"
  /\ \E findOneOk \in BOOLEAN :
       settings' = [settings EXCEPT !.loaded = <<loadPersistedConfig(settings, findOneOk)>>]
  /\ UNCHANGED <<coreVars, history, pair, shell, presets, languages, keystore, web>>

InitSettings ==
  /\ CoreAtRest
  /\ history = HistoryAtRest("translateWord", TRUE)
  /\ pair = PairAtRest
  /\ settings = SettingsAtRest
  /\ shell = ShellAtRest
  /\ presets = PresetsAtRest
  /\ languages = LanguagesAtRest
  /\ keystore = KeystoreAtRest
  /\ web = WebAtRest

NextSettings ==
  \/ ServerStart
  \/ CliSave
  \/ WebSave
  \/ WebLoad

SpecSettings == InitSettings /\ [][NextSettings]_vars

-----------------------------------------------------------------------------
(* zsh integration (scripts/ai-shell.zsh)                                  *)

\* Trailing characters the check skips: punctuation, closing brackets and
\* emoji (one of each kind stands for the class).
IgnoredTrailing == {"!", ".", ")", "*"}

\* The loop that pops trailing whitespace and ignored characters.
RECURSIVE StripTrailing(_)
StripTrailing(chars) ==
  IF chars # <<>> /\ chars[Len(chars)] \in (Whitespace \cup IgnoredTrailing)
    THEN StripTrailing(SubSeq(chars, 1, Len(chars) - 1))
    ELSE chars

\* _ai_cmd_output_ends_with_question, "?" and "Q" being the ASCII and the
\* full-width question mark.
EndsWithQuestion(text) ==
  LET normalized == StripTrailing(Trim(text)) IN
    normalized # <<>> /\ normalized[Len(normalized)] \in {"?", "Q"}

\* What a run of the CLI may print.
Outputs ==
  {<<>>, <<"o", "k">>, <<"o", "k", "?">>, <<"o", "k", "Q", "!", "\n">>,
   <<"?", "o", "k", ".">>, <<"o", "k", "?", " ", "*">>}

ExitStatuses == {0, 1, 127}

\* The condition of line 87 of the script.
ArmsPrefill(status, nargs, mktempOk, output) ==
  status = 0 /\ nargs > 0 /\ mktempOk /\ EndsWithQuestion(output)

\* The user runs ai with nargs arguments: the function ai() from mktemp to
\* its return.
ShellRunAi ==
  /\ shell.pc = "prompt"
  /\ \E status \in ExitStatuses, nargs \in 0..1, mktempOk \in BOOLEAN, output \in Outputs :
       shell' = [shell EXCEPT
                   !.pc = "finished",
                   !.AI_CMD_PREFILL_NEXT =
                      IF ArmsPrefill(status, nargs, mktempOk, output) THEN 1 ELSE @,
                   !.last = [cmd |-> "ai", status |-> status, nargs |-> nargs,
                             mktempOk |-> mktempOk, output |-> output],
                   !.promptsSince = 0]
  /\ UNCHANGED <<coreVars, history, pair, settings, presets, languages, keystore, web>>

\* The user runs some other command (or just presses return).
ShellRunOther ==
  /\ shell.pc = "prompt"
  /\ shell.promptsSince < MaxPrompts
  /\ shell' = [shell EXCEPT !.pc = "finished"]
  /\ UNCHANGED <<coreVars, history, pair, settings, presets, languages, keystore, web>>

\* A new prompt: the line editor starts with an empty buffer and runs the
\* line-init hook _ai_cmd_prefill_line_init.
ShellLineInit ==
  /\ shell.pc = "finished"
  /\ shell' = [shell EXCEPT
                 !.pc = "prompt",
                 !.LBUFFER = IF shell.AI_CMD_PREFILL_NEXT # 0 THEN <<"a", "i", " ">> ELSE <<>>,
                 !.AI_CMD_PREFILL_NEXT = 0,
                 !.promptsSince = @ + 1]
  /\ UNCHANGED <<coreVars, history, pair, settings, presets, languages, keystore, web>>

InitShell ==
  /\ CoreAtRest
  /\ history = HistoryAtRest("translateWord", TRUE)
  /\ pair = PairAtRest
  /\ settings = SettingsAtRest
  /\ shell = ShellAtRest
  /\ presets = PresetsAtRest
  /\ languages = LanguagesAtRest
  /\ keystore = KeystoreAtRest
  /\ web = WebAtRest

NextShell ==
  \/ ShellRunAi
  \/ ShellRunOther
  \/ ShellLineInit

SpecShell == InitShell /\ [][NextShell]_vars

-----------------------------------------------------------------------------
(* Configuration presets (POST / DELETE /api/config-presets)               *)

\* if (presets.length >= 10)
PresetLimit == 10

\* Names a request may carry: the first, a middle and the last of a full
\* file, two that are not stored, and a missing name.
PresetNames == {"p01", "p05", "p10", "p11", "p12", ""}

\* The config a request may carry; "" is a missing one.
PresetConfigs == {"cfgA", "cfgB", ""}

StoredNames == <<"p01", "p02", "p03", "p04", "p05", "p06", "p07", "p08", "p09", "p10">>

\* A presets file written by earlier saves: n entries, oldest first.
StoredPresets(n) ==
  [i \in 1..n |-> [name |-> StoredNames[i], config |-> "cfgA", stamp |-> "createdAt"]]

\* presets.findIndex((p) => p.name === name), 1-based; 0 when none (-1).
FindIndex(list, name) ==
  IF \E i \in 1..Len(list) : list[i].name = name
    THEN CHOOSE i \in 1..Len(list) :
           list[i].name = name /\ \A j \in 1..(i - 1) : list[j].name # name
    ELSE 0

\* presets.filter((p) => p.name !== name)
RECURSIVE FilterOut(_, _)
FilterOut(list, name) ==
  IF list = <<>> THEN <<>>
  ELSE (IF Head(list).name # name THEN <<Head(list)>> ELSE <<>>) \o FilterOut(Tail(list), name)

\* Variant: the oldest entry is dropped only above the limit.
PresetsFullAbove(list) == Len(list) > PresetLimit

\* presets.length >= 10
PresetsFull(list) == Len(list) >= PresetLimit

\* The list POST writes for a name and a config that are both given.
PresetsAfterPost(list, name, config) ==
  LET existingIndex == FindIndex(list, name) IN
    IF existingIndex > 0
      THEN [list EXCEPT ![existingIndex] =
              [name |-> name, config |-> config, stamp |-> "updatedAt"]]
      ELSE (IF PresetsFull(list) THEN Tail(list) ELSE list)
             \o <<[name |-> name, config |-> config, stamp |-> "createdAt"]>>

\* POST /api/config-presets
PresetPost ==
  /\ presets.requests < MaxPresetRequests
  /\ \E name \in PresetNames, config \in PresetConfigs :
       IF ~Truthy(name) \/ ~Truthy(config)
         THEN presets' = [presets EXCEPT
                            !.before = presets.list,
                            !.last = [kind |-> "post", name |-> name, config |-> config,
                                      answer |-> 400],
                            !.requests = @ + 1]
         ELSE presets' = [presets EXCEPT
                            !.exists = TRUE,
                            !.list = PresetsAfterPost(presets.list, name, config),
                            !.before = presets.list,
                            !.last = [kind |-> "post", name |-> name, config |-> config,
                                      answer |-> 200],
                            !.requests = @ + 1]
  /\ UNCHANGED <<coreVars, history, pair, settings, shell, languages, keystore, web>>

\* DELETE /api/config-presets/:name
PresetDelete ==
  /\ presets.requests < MaxPresetRequests
  /\ \E name \in PresetNames \ {""} :
       presets' = [presets EXCEPT
                     !.list = IF presets.exists THEN FilterOut(presets.list, name) ELSE @,
                     !.before = presets.list,
                     !.last = [kind |-> "delete", name |-> name, config |-> "", answer |-> 200],
                     !.requests = @ + 1]
  /\ UNCHANGED <<coreVars, history, pair, settings, shell, languages, keystore, web>>

InitPresets ==
  /\ CoreAtRest
  /\ history = HistoryAtRest("translateWord", TRUE)
  /\ pair = PairAtRest
  /\ settings = SettingsAtRest
  /\ shell = ShellAtRest
  /\ languages = LanguagesAtRest
  /\ keystore = KeystoreAtRest
  /\ web = WebAtRest
  /\ \E n \in {0, PresetLimit - 1, PresetLimit} :
       presets = [PresetsAtRest EXCEPT !.exists = n > 0, !.list = StoredPresets(n)]

NextPresets ==
  \/ PresetPost
  \/ PresetDelete

SpecPresets == InitPresets /\ [][NextPresets]_vars

-----------------------------------------------------------------------------
(* The languages collection (POST / PUT / DELETE /api/languages)           *)

DEFAULT_LANGUAGES ==
  <<[code |-> "auto", isSourceOnly |-> TRUE], [code |-> "zh", isSourceOnly |-> FALSE],
    [code |-> "en", isSourceOnly |-> FALSE], [code |-> "ja", isSourceOnly |-> FALSE],
    [code |-> "ko", isSourceOnly |-> FALSE], [code |-> "fr", isSourceOnly |-> FALSE],
    [code |-> "de", isSourceOnly |-> FALSE], [code |-> "es", isSourceOnly |-> FALSE],
    [code |-> "ru", isSourceOnly |-> FALSE], [code |-> "pt", isSourceOnly |-> FALSE],
    [code |-> "it", isSourceOnly |-> FALSE], [code |-> "ar", isSourceOnly |-> FALSE],
    [code |-> "vi", isSourceOnly |-> FALSE]>>

\* The documents insertMany writes: sort is the index, counted from 0.
DefaultDocs ==
  [i \in 1..Len(DEFAULT_LANGUAGES) |->
     [code |-> DEFAULT_LANGUAGES[i].code, name |-> "default",
      isSourceOnly |-> DEFAULT_LANGUAGES[i].isSourceOnly, sort |-> i - 1]]

\* Codes as a request carries them.
RawCodes == {"auto", " AUTO", "zh", "tl", "zz", ""}

\* normalizeLanguageCode: trim and lower-case.
normalizeLanguageCode(code) == IF code = " AUTO" THEN "auto" ELSE code

\* isValidLanguageCode: 'auto', or two letters that ISO 639-1 knows.
isValidLanguageCode(code) == code \in {"auto", "zh", "tl"}

LanguageSlots == {1, 2}

\* collection.findOne / updateOne / deleteOne({ code }): the first match,
\* 0 when there is none.
FirstWithCode(docs, code) ==
  IF \E i \in 1..Len(docs) : docs[i].code = code
    THEN CHOOSE i \in 1..Len(docs) :
           docs[i].code = code /\ \A j \in 1..(i - 1) : docs[j].code # code
    ELSE 0

RemoveAt(docs, i) == SubSeq(docs, 1, i - 1) \o SubSeq(docs, i + 1, Len(docs))

\* find({}).sort({ sort: -1 }).limit(1): the next sort value.
NextSort(docs) ==
  IF docs = <<>> THEN 0
  ELSE (CHOOSE m \in {docs[i].sort : i \in 1..Len(docs)} :
          \A i \in 1..Len(docs) : docs[i].sort <= m) + 1

\* Variant: the built-in entry may be deleted like any other.
DeleteRejectedNever(code) == FALSE

\* DELETE: if (code === 'auto') return 400
DeleteRejected(code) == code = "auto"

\* PUT: the $set built from the body, with isSourceOnly forced for 'auto';
\* Undefined is a field that is not set.
PutUpdates(code, name, isSourceOnly) ==
  [name |-> name,
   isSourceOnly |-> IF code = "auto" THEN "true" ELSE isSourceOnly]

Answered(r, status) ==
  [languages.slot[r] EXCEPT !.pc = "done", !.answer = status]

\* A request arrives and runs up to its first await (the countDocuments of
\* ensureDefaultLanguages), or is answered 400 before it.
LanguageRequest(r) ==
  /\ languages.slot[r].pc \in {"idle", "done"}
  /\ languages.taken < MaxLanguageRequests
  /\ \E kind \in {"post", "put", "delete"}, raw \in RawCodes,
        name \in {Undefined, "", "n2"}, iso \in {Undefined, "true", "false"} :
       \* a DELETE carries no body
       (kind = "delete" => (name = Undefined /\ iso = Undefined)) /\
       LET code == normalizeLanguageCode(raw)
           bad == CASE kind = "post" ->
                         ~Truthy(code) \/ ~Truthy(name) \/ ~isValidLanguageCode(code)
                    [] kind = "put" ->
                         ~Truthy(code) \/ name = "" \/ (name = Undefined /\ iso = Undefined)
                    [] kind = "delete" -> ~Truthy(code) \/ DeleteRejected(code)
           req == [kind |-> kind, code |-> code, name |-> name, isSourceOnly |-> iso,
                   pc |-> IF bad THEN "done" ELSE "count", sort |-> 0,
                   answer |-> IF bad THEN 400 ELSE 0, inserted |-> FALSE]
       IN languages' = [languages EXCEPT !.slot[r] = req, !.taken = @ + 1]
  /\ UNCHANGED <<coreVars, history, pair, settings, shell, presets, keystore, web>>

\* ensureDefaultLanguages: countDocuments resolves.
LanguageCount(r) ==
  /\ languages.slot[r].pc = "count"
  /\ languages' = [languages EXCEPT
                     !.slot[r].pc = IF Len(languages.docs) > 0 THEN "op" ELSE "seed"]
  /\ UNCHANGED <<coreVars, history, pair, settings, shell, presets, keystore, web>>

\* ensureDefaultLanguages: insertMany of the defaults.
LanguageSeed(r) ==
  /\ languages.slot[r].pc = "seed"
  /\ languages' = [languages EXCEPT !.docs = @ \o DefaultDocs, !.slot[r].pc = "op"]
  /\ UNCHANGED <<coreVars, history, pair, settings, shell, presets, keystore, web>>

\* The request's own first database call: findOne (POST), updateOne (PUT)
\* or deleteOne (DELETE).
LanguageOp(r) ==
  /\ languages.slot[r].pc = "op"
  /\ LET me == languages.slot[r]
         at == FirstWithCode(languages.docs, me.code)
     IN CASE me.kind = "post" ->
               languages' = [languages EXCEPT
                               !.slot[r] = IF at > 0 THEN Answered(r, 409)
                                           ELSE [me EXCEPT !.pc = "maxsort"]]
          [] me.kind = "put" ->
               IF at = 0
                 THEN languages' = [languages EXCEPT !.slot[r] = Answered(r, 404)]
                 ELSE LET u == PutUpdates(me.code, me.name, me.isSourceOnly)
                          old == languages.docs[at]
                          new == [old EXCEPT
                                    !.name = IF u.name = Undefined THEN @ ELSE u.name,
                                    !.isSourceOnly = IF u.isSourceOnly = Undefined THEN @
                                                     ELSE u.isSourceOnly = "true"]
                      IN languages' = [languages EXCEPT !.docs[at] = new,
                                                        !.slot[r] = Answered(r, 200)]
          [] me.kind = "delete" ->
               IF at = 0
                 THEN languages' = [languages EXCEPT !.slot[r] = Answered(r, 404)]
                 ELSE languages' = [languages EXCEPT !.docs = RemoveAt(@, at),
                                                     !.slot[r] = Answered(r, 200)]
  /\ UNCHANGED <<coreVars, history, pair, settings, shell, presets, keystore, web>>

\* POST: the document with the largest sort is read.
LanguageMaxSort(r) ==
  /\ languages.slot[r].pc = "maxsort"
  /\ languages' = [languages EXCEPT !.slot[r].sort = NextSort(languages.docs),
                                    !.slot[r].pc = "insert"]
  /\ UNCHANGED <<coreVars, history, pair, settings, shell, presets, keystore, web>>

\* POST: insertOne, then the 200 answer.
LanguageInsert(r) ==
  /\ languages.slot[r].pc = "insert"
  /\ LET me == languages.slot[r] IN
       languages' = [languages EXCEPT
                       !.docs = Append(@, [code |-> me.code, name |-> me.name,
                                           isSourceOnly |-> (me.isSourceOnly = "true"),
                                           sort |-> me.sort]),
                       !.slot[r] = [Answered(r, 200) EXCEPT !.inserted = TRUE]]
  /\ UNCHANGED <<coreVars, history, pair, settings, shell, presets, keystore, web>>

InitLanguages ==
  /\ CoreAtRest
  /\ history = HistoryAtRest("translateWord", TRUE)
  /\ pair = PairAtRest
  /\ settings = SettingsAtRest
  /\ shell = ShellAtRest
  /\ presets = PresetsAtRest
  /\ keystore = KeystoreAtRest
  /\ web = WebAtRest
  /\ \E seeded \in BOOLEAN :
       languages = [LanguagesAtRest EXCEPT !.docs = IF seeded THEN DefaultDocs ELSE <<>>]

NextLanguages ==
  \/ \E r \in LanguageSlots : LanguageRequest(r)
  \/ \E r \in LanguageSlots : LanguageCount(r)
  \/ \E r \in LanguageSlots : LanguageSeed(r)
  \/ \E r \in LanguageSlots : LanguageOp(r)
  \/ \E r \in LanguageSlots : LanguageMaxSort(r)
  \/ \E r \in LanguageSlots : LanguageInsert(r)

SpecLanguages == InitLanguages /\ [][NextLanguages]_vars

-----------------------------------------------------------------------------
(* Saving the configuration and the tokens (POST /api/config, /api/token)  *)

KeyProviders == {"deepseek", "openai"}

\* apiKeys = {}: no provider has an entry.
NoKeys == [p \in KeyProviders |-> ""]

\* Tokens a POST /api/token may submit.
Tokens == {"tokA", "tokB"}

KeySlots == {1, 2}

\* normalizeConfig on a configuration that has apiKeys (an object).
normalizeConfigWithKeys(c) ==
  [provider |-> normalizeConfig(c).provider, from |-> normalizeConfig(c).from,
   to |-> normalizeConfig(c).to, apiKeys |-> c.apiKeys]

\* loadPersistedConfig, apiKeys included.
loadPersistedWithKeys(st, findOneOk) ==
  IF st.db /\ findOneOk /\ st.mongo # <<>>
    THEN normalizeConfigWithKeys(st.mongo[1])
    ELSE IF st.file # <<>>
      THEN normalizeConfigWithKeys(st.file[1])
      ELSE normalizeConfigWithKeys(DEFAULT_CONFIG @@ [apiKeys |-> NoKeys])

\* Variant: apiKeys of the body are taken like any other field.
ConfigApiKeysFromBody(persistedConfig, body_) ==
  IF body_.apiKeys = <<>> THEN persistedConfig.apiKeys ELSE body_.apiKeys[1]

\* POST /api/config: apiKeys: persistedConfig.apiKeys || {}
ConfigApiKeys(persistedConfig, body_) == persistedConfig.apiKeys

\* The configuration a request persists, built from the one it loaded.
NextConfigOf(req, persistedConfig) ==
  IF req.kind = "config"
    THEN normalizeConfigWithKeys(
           Spread(persistedConfig, req.body) @@
             [apiKeys |-> ConfigApiKeys(persistedConfig, req.body)])
    ELSE normalizeConfigWithKeys(
           [persistedConfig EXCEPT !.apiKeys = [@ EXCEPT ![req.provider] = req.token]])

\* persistConfig has run to its end.
PersistedBy(st, r, nextConfig) ==
  [st EXCEPT !.mongo = IF st.db THEN <<nextConfig>> ELSE @,
             !.file = <<nextConfig>>,
             !.slot[r].pc = "done",
             !.slot[r].answer = 200]

\* Bodies of POST /api/config: fields to set, and possibly an apiKeys map.
KeyConfigBodies ==
  {[provider |-> pr, from |-> Undefined, to |-> Undefined, apiKeys |-> k] :
     pr \in {Undefined, "qwen"},
     k \in {<<>>, <<[p \in KeyProviders |-> "evil"]>>}}

\* A request arrives.  Without MongoDB nothing in the handler waits for
\* I/O and it runs to its end; with MongoDB it stops at findOne.
KeyRequest(r) ==
  /\ keystore.slot[r].pc = "idle"
  /\ Cardinality({q \in KeySlots : keystore.slot[q].pc \notin {"idle", "done"}})
       < keystore.maxInFlight
  /\ \E kind \in {"config", "token"}, pr \in KeyProviders \cup {""},
        token_ \in Tokens \cup {""}, body_ \in KeyConfigBodies :
       /\ kind = "config" => (pr = "" /\ token_ = "")
       /\ kind = "token" => body_ = [provider |-> Undefined, from |-> Undefined,
                                     to |-> Undefined, apiKeys |-> <<>>]
       /\ LET req == [kind |-> kind, provider |-> pr, token |-> token_, body |-> body_,
                      before |-> loadPersistedWithKeys(keystore, TRUE).apiKeys,
                      loaded |-> <<>>, pc |-> "findOne", answer |-> 0]
              st == [keystore EXCEPT !.slot[r] = req]
          IN IF kind = "token" /\ pr = ""
               THEN keystore' = [st EXCEPT !.slot[r].pc = "done", !.slot[r].answer = 400]
               ELSE IF ~keystore.db
                 THEN LET persistedConfig == loadPersistedWithKeys(keystore, TRUE) IN
                      keystore' = PersistedBy([st EXCEPT !.slot[r].loaded = <<persistedConfig>>],
                                              r, NextConfigOf(req, persistedConfig))
                 ELSE keystore' = st
  /\ UNCHANGED <<coreVars, history, pair, settings, shell, presets, languages, web>>

\* loadPersistedConfig: findOne resolves or rejects; the request goes on to
\* persistConfig's updateOne.
KeyFindOne(r) ==
  /\ keystore.slot[r].pc = "findOne"
  /\ \E findOneOk \in BOOLEAN :
       keystore' = [keystore EXCEPT
                      !.slot[r].loaded = <<loadPersistedWithKeys(keystore, findOneOk)>>,
                      !.slot[r].pc = "updateOne"]
  /\ UNCHANGED <<coreVars, history, pair, settings, shell, presets, languages, web>>

\* persistConfig: updateOne resolves (the file is written and the request
\* answered 200) or rejects (answered 500).
KeyUpdateOne(r) ==
  /\ keystore.slot[r].pc = "updateOne"
  /\ \E updateOneOk \in BOOLEAN :
       IF updateOneOk
         THEN keystore' = PersistedBy(keystore, r,
                                      NextConfigOf(keystore.slot[r], keystore.slot[r].loaded[1]))
         ELSE keystore' = [keystore EXCEPT !.slot[r].pc = "done", !.slot[r].answer = 500]
  /\ UNCHANGED <<coreVars, history, pair, settings, shell, presets, languages, web>>

IdleKeyRequest ==
  [kind |-> "none", provider |-> "", token |-> "",
   body |-> [provider |-> Undefined, from |-> Undefined, to |-> Undefined, apiKeys |-> <<>>],
   before |-> NoKeys, loaded |-> <<>>, pc |-> "idle", answer |-> 0]

\* The server is up, with or without MongoDB; the stored configuration is
\* absent or holds a key, the file and the MongoDB copy agreeing.
InitKeystoreWith(n) ==
  /\ CoreAtRest
  /\ history = HistoryAtRest("translateWord", TRUE)
  /\ pair = PairAtRest
  /\ settings = SettingsAtRest
  /\ shell = ShellAtRest
  /\ presets = PresetsAtRest
  /\ languages = LanguagesAtRest
  /\ web = WebAtRest
  /\ \E connected \in BOOLEAN,
        stored \in {<<>>, <<DEFAULT_CONFIG @@ [apiKeys |-> [NoKeys EXCEPT !["deepseek"] = "old"]]>>} :
       keystore = [db |-> connected, file |-> stored,
                   mongo |-> IF connected THEN stored ELSE <<>>,
                   slot |-> [r \in KeySlots |-> IdleKeyRequest], maxInFlight |-> n]

NextKeystore ==
  \/ \E r \in KeySlots : KeyRequest(r)
  \/ \E r \in KeySlots : KeyFindOne(r)
  \/ \E r \in KeySlots : KeyUpdateOne(r)

\* Requests handled one after the other.
InitKeystoreSeq == InitKeystoreWith(1)

SpecKeystoreSeq == InitKeystoreSeq /\ [][NextKeystore]_vars

\* Two requests may be in the handlers together.
InitKeystore == InitKeystoreWith(2)

SpecKeystore == InitKeystore /\ [][NextKeystore]_vars

-----------------------------------------------------------------------------
(* Answering questions and previews (POST /api/ask, POST /api/preview)     *)

\* Chunks one stream delivers at most.
MaxChunks == 2

WebRuns == {1, 2}

WebRoutes == {"ask", "preview"}

\* req.body.provider: absent, a chat provider, the free one, an unknown one.
WebProviders == {Undefined, "deepseek", "libre", "gemini"}

\* req.body.question / req.body.text: absent or given.
WebTexts == {"", "q"}

\* A credential a browser may put in the body.
BodyKey == "body-key"

BodyApiKeys == {<<>>, <<[p \in CredentialProviders |-> BodyKey]>>}

\* req.body: the fields the handlers read and the credential-like ones.
WebBodies ==
  [text : WebTexts, provider : WebProviders, apiKeys : BodyApiKeys,
   token : {Undefined, BodyKey}, configApiKeys : BodyApiKeys]

\* The stored configurations: provider and apiKeys (deepseek's key set or not).
WebPersisted ==
  [provider : {"libre", "openai"},
   apiKeys : {k \in ApiKeysValues : k["qwen"] = "" /\ k["openai"] = ""}]

\* process.env of the server: DEEPSEEK_API_KEY set or not.
WebEnvs ==
  {e \in EnvValues : /\ e["DASHSCOPE_API_KEY"] = Undefined
                     /\ e["OPENAI_API_KEY"] = Undefined
                     /\ e["DEEPSEEK_API_KEY"] # ""}

\* err.statusCode of what askStream / translate reject with.
WebErrors == {NoStatusCode, 401, 429, 502}

\* a || b || c
Or3(a, b, c) == IF Truthy(a) THEN a ELSE IF Truthy(b) THEN b ELSE c

\* Variant: the apiKeys of the body are taken when the body has them.
RequestApiKeysFromBody(reqBody, persistedConfig) ==
  IF reqBody.apiKeys # <<>> THEN reqBody.apiKeys[1]
  ELSE IF reqBody.configApiKeys # <<>> THEN reqBody.configApiKeys[1]
  ELSE persistedConfig.apiKeys

\* apiKeys: persistedConfig.apiKeys || {}
RequestApiKeys(reqBody, persistedConfig) == persistedConfig.apiKeys

\* askConfig of POST /api/ask; no token is passed, askStream defaults it to ''.
askConfig(reqBody, persistedConfig) ==
  [provider |-> Or3(reqBody.provider, persistedConfig.provider, "deepseek"),
   apiKeys |-> RequestApiKeys(reqBody, persistedConfig), token |-> ""]

\* previewConfig of POST /api/preview (from and to do not reach the credential).
previewConfig(reqBody, persistedConfig) ==
  [provider |-> Or3(reqBody.provider, persistedConfig.provider, "libre"),
   apiKeys |-> RequestApiKeys(reqBody, persistedConfig), token |-> ""]

\* Variant: every failure is answered with 500.
ErrorStatusAlways500(statusCode) == 500

\* Number.isInteger(err?.statusCode) ? err.statusCode : 500
ErrorStatus(statusCode) == IF statusCode # NoStatusCode THEN statusCode ELSE 500

\* A request that has arrived and has not been looked at.
Received(route, reqBody) ==
  [pc |-> "received", route |-> route, body |-> reqBody, sent |-> <<>>, err |-> <<>>,
   wroteChunk |-> FALSE, headersSent |-> FALSE, statusCode |-> 200, chunks |-> 0,
   entries |-> 0, outcome |-> "pending", log |-> <<>>]

\* The catch block of POST /api/ask: res.end() once headers are out, else
\* res.status(statusCode).json(...).
AskCatch(run, statusCode) ==
  IF run.headersSent
    THEN [run EXCEPT !.pc = "done", !.outcome = "failed", !.err = <<statusCode>>,
                     !.log = Append(@, "end")]
    ELSE [run EXCEPT !.pc = "done", !.outcome = "failed", !.err = <<statusCode>>,
                     !.statusCode = ErrorStatus(statusCode), !.headersSent = TRUE,
                     !.log = Append(@, "json")]

\* The catch block of POST /api/preview.
PreviewCatch(run, statusCode) ==
  [run EXCEPT !.pc = "done", !.outcome = "failed", !.err = <<statusCode>>,
              !.statusCode = ErrorStatus(statusCode), !.headersSent = TRUE,
              !.log = Append(@, "json")]

\* POST /api/ask up to the provider call: the question is checked, the
\* configuration loaded, askStream resolves provider and credential.
AskHandled(run, persistedConfig, environ) ==
  LET cfg == askConfig(run.body, persistedConfig)
      apiKey_ == AskStreamApiKey(cfg.provider, cfg.apiKeys, environ, cfg.token)
  IN IF run.body.text = ""
       THEN [run EXCEPT !.pc = "done", !.outcome = "rejected", !.statusCode = 400,
                        !.headersSent = TRUE, !.log = Append(@, "json")]
     ELSE IF ~LookupProvider(cfg.provider).truthy \/ cfg.provider = "libre"
               \/ ~Truthy(apiKey_)
       THEN AskCatch(run, NoStatusCode)
     ELSE [run EXCEPT !.pc = "streaming", !.sent = <<apiKey_>>]

\* POST /api/preview up to the provider call.
PreviewHandled(run, persistedConfig, environ) ==
  LET cfg == previewConfig(run.body, persistedConfig)
      apiKey_ == TranslateApiKey(cfg.provider, cfg.apiKeys, environ, cfg.token)
  IN IF cfg.provider = "libre"
       THEN [run EXCEPT !.pc = "translating"]
     ELSE IF ~LookupProvider(cfg.provider).truthy \/ ~Truthy(apiKey_)
       THEN PreviewCatch(run, NoStatusCode)
     ELSE [run EXCEPT !.pc = "translating", !.sent = <<apiKey_>>]

WebHandle(r) ==
  /\ web.run # <<>>
  /\ web.run[r].pc = "received"
  /\ web' = [web EXCEPT !.run[r] =
               IF @.route = "ask" THEN AskHandled(@, web.persisted, web.env)
               ELSE PreviewHandled(@, web.persisted, web.env)]
  /\ UNCHANGED <<coreVars, history, pair, settings, shell, presets, languages, keystore>>

\* The onChunk callback of POST /api/ask.
WebChunk(r) ==
  /\ web.run # <<>>
  /\ web.run[r].pc = "streaming"
  /\ web.run[r].chunks < MaxChunks
  /\ web' = [web EXCEPT !.run[r] =
               [@ EXCEPT !.log = IF web.run[r].wroteChunk THEN Append(@, "write")
                                 ELSE @ \o <<"setHeader", "write">>,
                         !.wroteChunk = TRUE, !.headersSent = TRUE, !.chunks = @ + 1]]
  /\ UNCHANGED <<coreVars, history, pair, settings, shell, presets, languages, keystore>>

\* askStream resolves: the answer is written if no chunk was, saveAskHistory
\* is awaited (it swallows its own failures), the response is ended.
WebAnswered(r) ==
  /\ web.run # <<>>
  /\ web.run[r].pc = "streaming"
  /\ \E inserted \in BOOLEAN :
       web' = [web EXCEPT !.run[r] =
                 [@ EXCEPT !.log = (IF web.run[r].wroteChunk THEN @
                                    ELSE @ \o <<"setHeader", "write">>)
                                   \o <<"saveAskHistory", "end">>,
                           !.headersSent = TRUE, !.pc = "done", !.outcome = "ok",
                           !.entries = IF inserted THEN @ + 1 ELSE @]]
  /\ UNCHANGED <<coreVars, history, pair, settings, shell, presets, languages, keystore>>

\* translate resolves: res.json({success: true, ...}).
WebPreviewed(r) ==
  /\ web.run # <<>>
  /\ web.run[r].pc = "translating"
  /\ web' = [web EXCEPT !.run[r] =
               [@ EXCEPT !.log = Append(@, "json"), !.headersSent = TRUE,
                         !.pc = "done", !.outcome = "ok"]]
  /\ UNCHANGED <<coreVars, history, pair, settings, shell, presets, languages, keystore>>

\* The provider call rejects.
WebRejected(r) ==
  /\ web.run # <<>>
  /\ web.run[r].pc \in {"streaming", "translating"}
  /\ \E statusCode \in WebErrors :
       web' = [web EXCEPT !.run[r] =
                 IF @.route = "ask" THEN AskCatch(@, statusCode)
                 ELSE PreviewCatch(@, statusCode)]
  /\ UNCHANGED <<coreVars, history, pair, settings, shell, presets, languages, keystore>>

\* Two requests to one route with the same text reach a server whose stored
\* configuration and environment do not change.
InitWeb ==
  /\ CoreAtRest
  /\ history = HistoryAtRest("translateWord", TRUE)
  /\ pair = PairAtRest
  /\ settings = SettingsAtRest
  /\ shell = ShellAtRest
  /\ presets = PresetsAtRest
  /\ languages = LanguagesAtRest
  /\ keystore = KeystoreAtRest
  /\ \E persistedConfig \in WebPersisted, environ \in WebEnvs, route \in WebRoutes,
        b1 \in WebBodies, b2 \in WebBodies :
       /\ b1.text = b2.text
       /\ b1.provider = b2.provider
       /\ web = [persisted |-> persistedConfig, env |-> environ,
                 run |-> <<Received(route, b1), Received(route, b2)>>]

NextWeb ==
  \/ \E r \in WebRuns : WebHandle(r)
  \/ \E r \in WebRuns : WebChunk(r)
  \/ \E r \in WebRuns : WebAnswered(r)
  \/ \E r \in WebRuns : WebPreviewed(r)
  \/ \E r \in WebRuns : WebRejected(r)

SpecWeb == InitWeb /\ [][NextWeb]_vars

-----------------------------------------------------------------------------
(* Properties of the call: provider lookup and credentials                 *)

Called == pc # "start"

\* The three credential layers of the called provider are all empty.
NoCredential ==
  /\ provider \in CredentialProviders
  /\ apiKeys[provider] = ""
  /\ env[PROVIDERS[provider].apiKeyEnv] \in {Undefined, ""}
  /\ token = ""

\* C1: ask and askStream on deepseek, qwen or openai with no key in apiKeys,
\* in the environment or in token fail with the missing-credential error,
\* and no request is handed to the network at any point of the invocation.
C1_MissingCredentialNoRequest ==
  (op \in {"ask", "askStream"} /\ NoCredential) =>
    /\ requests = <<>>
    /\ Called => (pc = "failed" /\ err.kind = "MissingCredential")

\* askStream failed for want of a key although another provider has one.
C1_Witness ==
  /\ op = "askStream"
  /\ NoCredential
  /\ \E p \in CredentialProviders : apiKeys[p] # ""
  /\ pc = "failed"
  /\ err.kind = "MissingCredential"
  /\ requests = <<>>

\* First non-empty of apiKeys[provider], the provider's environment
\* variable, the legacy token; "" when all three are empty.
FirstNonEmptyLayer ==
  LET fromConfig == apiKeys[provider]
      fromEnv == env[PROVIDERS[provider].apiKeyEnv]
  IN IF fromConfig # "" THEN fromConfig
     ELSE IF fromEnv \notin {Undefined, ""} THEN fromEnv
     ELSE token

\* C8: for a credential-bearing provider the key sent is the first non-empty
\* of apiKeys[provider], the environment variable, the legacy token, in that
\* order, and the call is refused only when all are empty; translate, ask
\* and askStream agree on this.
C8_ResolutionOrder ==
  (provider \in CredentialProviders /\ Called) =>
    IF FirstNonEmptyLayer = ""
      THEN requests = <<>> /\ pc = "failed" /\ err.kind = "MissingCredential"
      ELSE /\ Len(requests) = 1
           /\ requests[1].auth = FirstNonEmptyLayer
           /\ apiKey = FirstNonEmptyLayer

\* translate fell through to the legacy token, the last layer.
C8_Witness ==
  /\ op = "translate"
  /\ provider \in CredentialProviders
  /\ apiKeys[provider] = ""
  /\ env[PROVIDERS[provider].apiKeyEnv] = ""
  /\ token = LegacyToken
  /\ Len(requests) = 1
  /\ requests[1].auth = LegacyToken

\* C9: ask and askStream on libre fail with the unsupported-operation error
\* whatever keys, environment and token are present, and issue no request;
\* translate on libre goes to the translation endpoint with no credential.
C9_LibreTranslateOnly ==
  /\ (op \in {"ask", "askStream"} /\ provider = "libre") =>
       /\ requests = <<>>
       /\ Called => (pc = "failed" /\ err.kind = "UnsupportedOperation")
  /\ (op = "translate" /\ provider = "libre" /\ Called) =>
       /\ Len(requests) = 1
       /\ requests[1].client = "axios.get"
       /\ requests[1].auth = ""
       /\ err.kind \notin {"MissingCredential", "UnsupportedOperation", "UnknownProvider"}

\* ask on libre was refused although every layer holds a key.
C9_Witness ==
  /\ op = "ask"
  /\ provider = "libre"
  /\ \A p \in CredentialProviders : apiKeys[p] # ""
  /\ token = LegacyToken
  /\ pc = "failed"
  /\ err.kind = "UnsupportedOperation"

\* C10: a provider id outside the table (deepseek, qwen, openai, libre) makes
\* translate, ask and askStream fail with the unknown-provider error, with
\* no credential resolved and nothing handed to the network.
C10_UnknownProviderFailsFast ==
  (provider \notin TableIds /\ Called) =>
    /\ pc = "failed"
    /\ err.kind = "UnknownProvider"
    /\ apiKey = Undefined
    /\ requests = <<>>

-----------------------------------------------------------------------------
(* Properties of the stream decoder                                        *)

\* The deltas of a text taken line by line in one piece: what a single
\* read holding everything would deliver.  Text after the last newline is
\* not a line.
RECURSIVE DeltasOf(_)
DeltasOf(text) ==
  LET i == IndexOfNewline(text) IN
    IF i = 0 THEN <<>>
    ELSE LET d == LineDelta(SubSeq(text, 1, i - 1)) IN
      (IF d = <<>> THEN <<>> ELSE <<d>>) \o DeltasOf(SubSeq(text, i + 1, Len(text)))

RECURSIVE Concat(_)
Concat(fragments) ==
  IF fragments = <<>> THEN <<>> ELSE Head(fragments) \o Concat(Tail(fragments))

WholeText(bytes) == DecodedText(<<>>, bytes)

NewlineTerminated(bytes) == bytes = <<>> \/ bytes[Len(bytes)] = "\n"

\* The bytes with every malformed data line (and its newline) taken out.
RECURSIVE WithoutMalformed(_)
WithoutMalformed(bytes) ==
  LET i == IndexOfNewline(bytes) IN
    IF i = 0 THEN bytes
    ELSE LET l == SubSeq(bytes, 1, i - 1) IN
      (IF IsMalformedLine(l) THEN <<>> ELSE l \o <<"\n">>)
        \o WithoutMalformed(SubSeq(bytes, i + 1, Len(bytes)))

\* C2: for a body of newline-terminated lines, however the bytes are cut
\* into reads, the sink is invoked with the deltas of the lines in order and
\* the result is their trimmed concatenation; the three lines "He", "llo",
\* [DONE] give the sink calls "He", "llo" and the result "Hello".
C2_ReadBoundaryIndependent ==
  (pc = "done" /\ NewlineTerminated(body)) =>
    /\ sinkCalls = DeltasOf(WholeText(body))
    /\ result = Trim(Concat(DeltasOf(WholeText(body))))
    /\ body = HelloBody =>
         /\ sinkCalls = <<(<<"H", "e">>), (<<"l", "l", "o">>)>>
         /\ result = <<"H", "e", "l", "l", "o">>

\* A read ended inside the second JSON object after "He" was delivered.
C2_Witness ==
  /\ body = HelloBody
  /\ pc = "read"
  /\ sinkCalls = <<(<<"H", "e">>)>>
  /\ buffer = DataPrefix \o <<" ", "{", "l">>

\* C3: once a data line with the sentinel [DONE] has been processed no later
\* line invokes the sink or changes the accumulated text, and the decoder
\* returns only after the transport has signalled completion.
C3_NothingAfterDone ==
  /\ [][sawDone => (sinkCalls' = sinkCalls /\ fullText' = fullText)]_vars
  /\ [](pc = "done" => (transport = "ended" /\ pos = Len(body)))

\* C4: malformed data lines never abort decoding: with the stream open the
\* decoder fails only if the transport does, and at the end the sink calls
\* and the result are those of the stream with the malformed lines removed.
C4_MalformedLinesSkipped ==
  /\ (pc = "failed" /\ transport # "idle") => transport = "aborted"
  /\ pc = "done" =>
       /\ sinkCalls = DeltasOf(WholeText(WithoutMalformed(body)))
       /\ result = Trim(Concat(DeltasOf(WholeText(WithoutMalformed(body)))))

\* A malformed line came before a well-formed one; only the latter counts.
C4_Witness ==
  /\ body = JoinLines(<<LineBad, LineHe>>)
  /\ pc = "done"
  /\ sinkCalls = <<(<<"H", "e">>)>>
  /\ result = <<"H", "e">>

\* The decoded text whose lines the inner loop has already handled.
ConsumedText ==
  LET text == WholeText(SubSeq(body, 1, pos)) IN
    SubSeq(text, 1, Len(text) - Len(buffer))

\* C5: at every point the accumulator is the concatenation of the fragments
\* the sink has been given, there is one fragment per non-empty delta
\* handled so far and none is empty, and on normal stream end the result is
\* that concatenation trimmed.
C5_AccumulatorIsSinkConcat ==
  /\ fullText = Concat(sinkCalls)
  /\ \A i \in 1..Len(sinkCalls) : sinkCalls[i] # <<>>
  /\ transport # "idle" => sinkCalls = DeltasOf(ConsumedText)
  /\ pc = "done" => result = Trim(Concat(sinkCalls))

\* The stream ended with a delta that begins with a blank and an empty delta
\* before it: trimming changed the text.
C5_Witness ==
  /\ body = JoinLines(<<LineEmpty, LineSpace>>)
  /\ pc = "done"
  /\ Len(sinkCalls) = 1
  /\ result # fullText
  /\ result = Trim(fullText)

\* C6: when a read fails because the connection was aborted, askStream
\* resolves with the trimmed text accumulated so far and does not fail.
C6_AbortIsStreamEnd ==
  transport = "aborted" => (pc = "done" /\ result = Trim(fullText))

\* C7: while a sink invocation has not returned no read is outstanding and
\* no byte is taken from the body; at most one invocation is pending; and a
\* read is outstanding only when every complete line received so far has
\* been handled.
C7_Backpressure ==
  /\ [](sinkPending <= 1)
  /\ [](sinkPending > 0 => ~readPending)
  /\ [](readPending => IndexOfNewline(buffer) = 0)
  /\ [][sinkPending > 0 => pos' = pos]_vars

\* The sink is busy with the first delta while a second complete line waits
\* in the buffer and the provider has more to send.
C7_Witness ==
  /\ sinkPending = 1
  /\ ~readPending
  /\ IndexOfNewline(buffer) > 0
  /\ pos < Len(body)

-----------------------------------------------------------------------------
(* Properties of failures                                                  *)

\* The request failed below HTTP with the given code.
TransportFailure(code) == pc = "failed" /\ ~failure.response /\ failure.code = code

\* C11: for every provider of the table and every operation that reaches
\* the network, a refused connection surfaces as a network-class error with
\* statusCode 502 whose hint names the host of the provider's base URL.
C11_ConnectionRefusedIsNetworkError ==
  (provider \in TableIds /\ TransportFailure("ECONNREFUSED")) =>
    /\ err.kind = "NetworkError"
    /\ err.statusCode = 502
    /\ err.hostHint = UrlHost(PROVIDERS[provider].baseUrl)

C13_EveryFailureHasStatusCode ==
  pc = "failed" => err.statusCode # NoStatusCode

\* C14: a failure that went through wrapProviderError with a response is an
\* HTTP error with the response's status, even if it has a network error
\* code too; without a response it is a network-class error with statusCode
\* 502 and a host hint exactly when the code is one of the four listed.
C14_ClassificationOrder ==
  (pc = "failed" /\ err.kind \in {"HttpError", "NetworkError"}) =>
    IF failure.response
      THEN err.kind = "HttpError" /\ err.statusCode = failure.status /\ err.hostHint = ""
      ELSE /\ err.kind = "NetworkError"
           /\ err.statusCode = 502
           /\ (err.hostHint # "") <=> (failure.code \in networkErrorCodes)

C14_Witness ==
  /\ pc = "failed"
  /\ failure.response
  /\ failure.code = "ECONNRESET"
  /\ err.kind = "HttpError"
  /\ err.statusCode = failure.status

\* C17: an invocation issues at most one request, whatever its outcome.
C17_AtMostOneRequest == Len(requests) <= 1

C17_Witness ==
  /\ TransportFailure("ETIMEDOUT")
  /\ Len(requests) = 1

\* C18: translate never resolves with an empty string.
C18_TranslateNeverEmpty ==
  (op = "translate" /\ pc = "done") => result # <<>>

-----------------------------------------------------------------------------
(* Properties of history recording                                         *)

-----------------------------------------------------------------------------
(* Properties of concurrent invocations                                    *)

IsPrefix(a, b) == Len(a) <= Len(b) /\ a = SubSeq(b, 1, Len(a))

\* C16: however two invocations in flight interleave at their awaits, the
\* sink of each receives the deltas of its own stream, in order, and each
\* returns the trimmed concatenation of its own deltas.
C16_ConcurrentIsolation ==
  \A i \in DOMAIN pair.inv :
    LET me == pair.inv[i]
        own == DeltasOf(WholeText(me.body))
    IN /\ IsPrefix(me.sinkCalls, own)
       /\ me.pc = "done" => (me.sinkCalls = own /\ me.result = Trim(Concat(own)))

\* Both invocations are in the middle of their streams, each holding a
\* partial line, and one of them has returned to its read after a delta.
C16_Witness ==
  /\ DOMAIN pair.inv = Invocations
  /\ \A i \in Invocations :
       /\ pair.inv[i].pc = "read"
       /\ pair.inv[i].pos > 0
       /\ pair.inv[i].pos < Len(pair.inv[i].body)
       /\ pair.locals[i].buffer # <<>>
  /\ pair.inv[1].sinkCalls = <<(<<"H", "e">>)>>
  /\ pair.inv[2].body = JoinLines(<<LineSpace>>)

-----------------------------------------------------------------------------
(* Properties of the stored configuration                                  *)

\* C19: after any saves by the CLI and the Web API, what the server loads
\* is the content of the config file, which is the configuration saved
\* last.
C19_LoadedIsFileContent ==
  (settings.loaded # <<>> /\ settings.lastSaved # <<>>) =>
    /\ settings.loaded = readConfigFromFile(settings)
    /\ settings.loaded = settings.lastSaved

-----------------------------------------------------------------------------
(* Properties of the zsh integration                                       *)

\* C20: after `ai <content>` finishes with exit status 0 the next prompt's
\* line buffer holds "ai "; later prompts of the same run are not prefilled;
\* a run that exits non-zero or has no arguments never arms the prefill.
C20_PrefillAfterSuccess ==
  /\ (shell.pc = "prompt" /\ shell.promptsSince = 1 /\ shell.last.cmd = "ai"
        /\ shell.last.status = 0 /\ shell.last.nargs > 0)
       => shell.LBUFFER = <<"a", "i", " ">>
  /\ (shell.pc = "prompt" /\ shell.promptsSince > 1) => shell.LBUFFER = <<>>
  /\ (shell.last.cmd = "ai" /\ (shell.last.status # 0 \/ shell.last.nargs = 0))
       => (shell.AI_CMD_PREFILL_NEXT = 0 /\ (shell.pc = "prompt" => shell.LBUFFER = <<>>))

-----------------------------------------------------------------------------
(* Properties of the end of the stream                                     *)

\* The bytes up to and including the last newline.
RECURSIVE CompleteLines(_)
CompleteLines(bytes) ==
  IF bytes = <<>> \/ bytes[Len(bytes)] = "\n" THEN bytes
  ELSE CompleteLines(SubSeq(bytes, 1, Len(bytes) - 1))

\* C29: when the transport signals completion, a final data line without
\* its newline is dropped: the sink calls and the returned text are those of
\* the complete lines alone, and the partial line is still in the buffer.
C29_TrailingPartialLineDiscarded ==
  (pc = "done" /\ ~NewlineTerminated(body)) =>
    /\ sinkCalls = DeltasOf(WholeText(CompleteLines(body)))
    /\ result = Trim(Concat(DeltasOf(WholeText(CompleteLines(body)))))
    /\ buffer = WholeText(SubSeq(body, Len(CompleteLines(body)) + 1, Len(body)))

C29_Witness ==
  /\ pc = "done"
  /\ body = JoinLines(<<LineHe>>) \o LineLlo
  /\ buffer = LineLlo
  /\ LineDelta(buffer) # <<>>
  /\ sinkCalls = <<(<<"H", "e">>)>>
  /\ result = <<"H", "e">>

-----------------------------------------------------------------------------
(* Properties of the history connection                                    *)

\* C28: when a history save returns, close() has been called on every
\* MongoDB client the save created, whether the insert succeeded, the
\* insert failed or the connect failed.
C28_HistoryClientClosed ==
  history.pc \in {"return", "idle"} => history.closeCalls = history.created

-----------------------------------------------------------------------------
(* Properties of the preset store                                          *)

NamesOf(list) == [i \in 1..Len(list) |-> list[i].name]

\* C24: the stored list never has more than 10 entries; saving a new name
\* when 10 are stored drops the head and appends the new entry; saving a
\* stored name replaces that entry where it is, count and order unchanged.
C24_PresetStoreBound ==
  /\ Len(presets.list) <= 10
  /\ (presets.last.kind = "post" /\ presets.last.answer = 200) =>
       LET name == presets.last.name
           at == FindIndex(presets.before, name)
       IN IF at = 0
            THEN /\ Len(presets.before) = 10 =>
                      /\ Len(presets.list) = 10
                      /\ SubSeq(presets.list, 1, 9) = Tail(presets.before)
                 /\ presets.list[Len(presets.list)].name = name
                 /\ presets.list[Len(presets.list)].config = presets.last.config
            ELSE /\ NamesOf(presets.list) = NamesOf(presets.before)
                 /\ presets.list[at].config = presets.last.config
                 /\ \A i \in 1..Len(presets.list) : i # at => presets.list[i] = presets.before[i]

\* A new name was saved into a full file.
C24_Witness ==
  /\ presets.last.kind = "post"
  /\ presets.last.name = "p11"
  /\ Len(presets.before) = 10
  /\ Len(presets.list) = 10
  /\ presets.list[1].name = "p02"
  /\ presets.list[10].name = "p11"

-----------------------------------------------------------------------------
(* Properties of the languages collection                                  *)

\* C25: the collection never holds two entries with the same code, and a
\* POST answered 409 has inserted nothing.
C25_LanguageCodesUnique ==
  /\ \A i, j \in 1..Len(languages.docs) :
       languages.docs[i].code = languages.docs[j].code => i = j
  /\ \A r \in LanguageSlots :
       languages.slot[r].answer = 409 => ~languages.slot[r].inserted

\* C26: once the collection is seeded an entry with code 'auto' exists and
\* isSourceOnly is true on every entry with that code.
C26_AutoProtected ==
  languages.docs # <<>> =>
    /\ \E i \in 1..Len(languages.docs) : languages.docs[i].code = "auto"
    /\ \A i \in 1..Len(languages.docs) :
         languages.docs[i].code = "auto" => languages.docs[i].isSourceOnly

\* A DELETE of 'auto' was answered 400 and a PUT on 'auto' asking for
\* isSourceOnly false was answered 200.
C26_Witness ==
  /\ languages.docs # <<>>
  /\ \E r, q \in LanguageSlots :
       /\ languages.slot[r].kind = "delete"
       /\ languages.slot[r].code = "auto"
       /\ languages.slot[r].answer = 400
       /\ languages.slot[q].kind = "put"
       /\ languages.slot[q].code = "auto"
       /\ languages.slot[q].isSourceOnly = "false"
       /\ languages.slot[q].answer = 200

-----------------------------------------------------------------------------
(* Properties of the stored apiKeys                                        *)

PersistedApiKeys == loadPersistedWithKeys(keystore, TRUE).apiKeys

\* The request in slot r is the last one that completed.
JustCompleted(r) ==
  /\ keystore.slot[r].pc = "done"
  /\ keystore.slot[r].answer = 200
  /\ \A q \in DOMAIN keystore.slot : q # r => keystore.slot[q].pc = "idle"

C22_NoTokenLost ==
  (/\ DOMAIN keystore.slot = KeySlots
   /\ \A r \in KeySlots : keystore.slot[r].pc = "done" /\ keystore.slot[r].answer = 200
   /\ \E r \in KeySlots : keystore.slot[r].kind = "token"
   /\ keystore.slot[1].provider # keystore.slot[2].provider)
  => \A r \in KeySlots :
       keystore.slot[r].kind = "token" =>
         PersistedApiKeys[keystore.slot[r].provider] = keystore.slot[r].token

-----------------------------------------------------------------------------
(* Properties of POST /api/ask and POST /api/preview                       *)

\* Two request bodies differ at most in apiKeys, token and config.apiKeys.
SameButCredentials(b1, b2) == b1.text = b2.text /\ b1.provider = b2.provider

\* C23: two requests to /api/ask or to /api/preview whose bodies differ only
\* in the credential-like fields (apiKeys, token, config.apiKeys) send the same
\* credential to the provider (or both send none), and it is never the one
\* the body carried: the stored configuration and the environment decide.
C23_CredentialFromServerOnly ==
  \A r1 \in DOMAIN web.run, r2 \in DOMAIN web.run :
    ( /\ web.run[r1].route = web.run[r2].route
      /\ SameButCredentials(web.run[r1].body, web.run[r2].body)
      /\ web.run[r1].pc # "received"
      /\ web.run[r2].pc # "received" )
    => /\ web.run[r1].sent = web.run[r2].sent
       /\ web.run[r1].sent # <<BodyKey>>

\* Two questions, one with credentials in its body and one without, have both
\* gone out to the provider with a credential.
C23_Witness ==
  /\ DOMAIN web.run = WebRuns
  /\ web.run[1].route = "ask"
  /\ web.run[1].body.apiKeys # <<>>
  /\ web.run[1].body.token = BodyKey
  /\ web.run[1].body.configApiKeys # <<>>
  /\ web.run[2].body.apiKeys = <<>>
  /\ web.run[2].body.token = Undefined
  /\ web.run[1].sent # <<>>
  /\ web.run[2].sent # <<>>

\* How often a step occurs in the log of a response.
Occurrences(log, step) == Cardinality({i \in DOMAIN log : log[i] = step})

====
